---- MODULE Spec2Model ----
(***************************************************************************)
(* Model of DevconnectPretixSyncService (passport-server): the sync pass   *)
(* that pulls every configured organizer/event from Pretix, validates the  *)
(* data and applies the event-info / item-info / ticket diff to the store. *)
(***************************************************************************)
EXTENDS Integers, Sequences, FiniteSets, TLC

\* ------------------------------------------------------------------ bounds
\* trySync passes explored with two organizers / with one event
MaxPasses == 1
MaxEventPasses == 3
\* store calls that throw in one behaviour, with two organizers / with one event
MaxStoreFaults == 1
MaxEventStoreFaults == 2
\* positions of the second order handed to a lone conversion call
MaxPositions == 2
\* trySync calls the sync loop may make, and replaceApi calls
MaxLoopPasses == 4
MaxSwaps == 1
MaxCheckItems == 2
MaxRetryPasses == 2
MaxSyncs == 4            \* 'sync' actions the client dispatches
MaxHash == 3             \* add-pcds actions stop when the collection hash reaches it
MaxRetryFaults == 1

\* ------------------------------------------------------------ value tables
Null == "<null>"

\* Number.prototype.toString for the ids that occur
toString(n) ==
  CASE n = 1 -> "1" [] n = 2 -> "2"
    [] n = 11 -> "11" [] n = 12 -> "12"
    [] n = 21 -> "21" [] n = 31 -> "31"

\* String.prototype.toLowerCase for the strings that occur
toLowerCase(s) ==
  CASE s = "A@X.com" -> "a@x.com"
    [] s = "Buyer@Y.org" -> "buyer@y.org"
    [] OTHER -> s

\* rank of an item_id / position_id string in a result set
rank(s) ==
  CASE s = "1" -> 1 [] s = "2" -> 2
    [] s = "11" -> 11 [] s = "12" -> 12
    [] s = "21" -> 21 [] s = "31" -> 31

\* sequence of the rows of S in ascending rank of key(row)
rowsInOrder(S, key) ==
  CHOOSE s \in [1..Cardinality(S) -> S] :
    /\ \A i, j \in 1..Cardinality(S) : i < j => s[i] # s[j]
    /\ \A i, j \in 1..Cardinality(S) : i < j => rank(key[s[i]]) <= rank(key[s[j]])

Range(s) == {s[i] : i \in 1..Len(s)}

\* Map.has / Set.has: keys[i] is the key of entry i
hasKey(keys, k) == \E i \in 1..Len(keys) : keys[i] = k

\* Map.get: the Map constructor keeps the last entry of a key
getByKey(s, keys, k) ==
  s[CHOOSE i \in 1..Len(s) :
      /\ keys[i] = k
      /\ \A j \in (i+1)..Len(s) : keys[j] # k]

\* the keys the maps are built on
itemIdsOf(rows) == [i \in 1..Len(rows) |-> rows[i].item_id]
positionIdsOf(rows) == [i \in 1..Len(rows) |-> rows[i].position_id]
apiItemIdsOf(items) == [i \in 1..Len(items) |-> toString(items[i].id)]

\* ------------------------------------------------------------ configuration
Orgs == {"A", "B"}
Events == {"e1", "e2", "e3"}

\* the organizer that owns an event id
orgOf(e) == IF e = "e3" THEN "B" ELSE "A"

\* ---------------------------------------------------------------- Pretix
getI18nString(name) == name.en

Item(id, nm, adm, pers, gen) ==
  [id |-> id, name |-> [en |-> nm], admission |-> adm,
   personalized |-> pers, generate_tickets |-> gen]

Position(id, item, nm, mail) ==
  [id |-> id, positionid |-> 1, item |-> item, attendee_name |-> nm,
   attendee_email |-> mail, secret |-> "s"]

Order(code, status, positions) ==
  [code |-> code, email |-> "Buyer@Y.org", status |-> status,
   positions |-> positions]

EventData(settings, nm, items, orders) ==
  [settings |-> settings, eventInfo |-> [slug |-> "ev", name |-> [en |-> nm]],
   items |-> items, tickets |-> orders]

eventSettings(required) ==
  [attendee_emails_asked |-> TRUE, attendee_emails_required |-> required]
goodSettings == eventSettings(TRUE)

\* -------------------------------------------------------------- Validator
validateEventSettings(settings) ==
  IF settings.attendee_emails_asked # TRUE \/ settings.attendee_emails_required # TRUE
  THEN <<"settings">>
  ELSE <<>>

\* faulty variant: "Never" (generate_tickets false) counts as a violation
validateEventItemNoFalse(item) ==
  (IF item.admission # TRUE THEN <<"admission">> ELSE <<>>)
  \o (IF item.personalized # TRUE THEN <<"personalized">> ELSE <<>>)
  \o (IF ~(item.generate_tickets = "null" \/ item.generate_tickets = "undefined")
      THEN <<"generate_tickets">> ELSE <<>>)

validateEventItem(item) ==
  (IF item.admission # TRUE THEN <<"admission">> ELSE <<>>)
  \o (IF item.personalized # TRUE THEN <<"personalized">> ELSE <<>>)
  \o (IF /\ ~(item.generate_tickets = "null" \/ item.generate_tickets = "undefined")
         /\ item.generate_tickets # "false"
      THEN <<"generate_tickets">> ELSE <<>>)

RECURSIVE itemViolations(_, _, _)
itemViolations(items, activeItemIdSet, e) ==
  IF items = <<>> THEN <<>>
  ELSE LET item == Head(items)
           itemErrors == IF toString(item.id) \in activeItemIdSet
                         THEN validateEventItem(item) ELSE <<>>
       IN  (IF Len(itemErrors) > 0
            THEN <<[event |-> e, item |-> item.id, errors |-> itemErrors]>>
            ELSE <<>>)
           \o itemViolations(Tail(items), activeItemIdSet, e)

\* eventConfig = [id, activeItemIDs]
checkEventData(eventData, eventConfig) ==
  LET eventSettingErrors == validateEventSettings(eventData.settings)
  IN  (IF Len(eventSettingErrors) > 0
       THEN <<[event |-> eventConfig.id, item |-> 0, errors |-> eventSettingErrors]>>
       ELSE <<>>)
      \o itemViolations(eventData.items, Range(eventConfig.activeItemIDs), eventConfig.id)

\* ------------------------------------------------- Order -> Ticket conversion
\* faulty variant: a converted ticket is born soft-deleted
ticketOfDeleted(order, p, existingItem) ==
  [email |-> toLowerCase(IF p.attendee_email \in {Null, ""}
                         THEN order.email ELSE p.attendee_email),
   full_name |-> p.attendee_name,
   devconnect_pretix_items_info_id |-> existingItem.id,
   is_deleted |-> TRUE,
   is_consumed |-> FALSE,
   position_id |-> toString(p.id),
   secret |-> p.secret]

\* faulty variant: the order's email is never used
ticketEmailNoFallback(order, p) == toLowerCase(p.attendee_email)

\* (attendee_email || order.email).toLowerCase()
ticketEmail(order, p) ==
  toLowerCase(IF p.attendee_email \in {Null, ""} THEN order.email ELSE p.attendee_email)

\* the ticket of one position of a paid order on a known item
ticketOf(order, p, existingItem) ==
  [email |-> ticketEmail(order, p),
   full_name |-> p.attendee_name,
   devconnect_pretix_items_info_id |-> existingItem.id,
   is_deleted |-> FALSE,
   is_consumed |-> FALSE,
   position_id |-> toString(p.id),
   secret |-> p.secret]

\* faulty variant: a position of an unknown item is put on the first item
positionTicketsAnyItem(order, p, itemsInfo) ==
  IF itemsInfo = <<>> THEN <<>> ELSE <<ticketOf(order, p, itemsInfo[1])>>

\* the tickets pushed for one position: none when itemsInfoByItemID has no
\* entry for its item
positionTickets(order, p, itemsInfo) ==
  IF hasKey(itemIdsOf(itemsInfo), toString(p.item))
  THEN <<ticketOf(order, p, getByKey(itemsInfo, itemIdsOf(itemsInfo), toString(p.item)))>>
  ELSE <<>>

RECURSIVE positionsToTickets(_, _, _)
positionsToTickets(order, positions, itemsInfo) ==
  IF positions = <<>> THEN <<>>
  ELSE positionTickets(order, Head(positions), itemsInfo)
       \o positionsToTickets(order, Tail(positions), itemsInfo)

\* faulty variant: no order is skipped
orderSkippedNever(order) == FALSE

\* order.status !== "p"
orderSkipped(order) == order.status # "p"

RECURSIVE ordersToDevconnectTickets(_, _)
ordersToDevconnectTickets(orders, itemsInfo) ==
  IF orders = <<>> THEN <<>>
  ELSE LET order == Head(orders)
       IN  (IF orderSkipped(order) THEN <<>>
            ELSE positionsToTickets(order, order.positions, itemsInfo))
           \o ordersToDevconnectTickets(Tail(orders), itemsInfo)

\* ------------------------------------------------------------------ Store
\* Rows carry the key of the unique constraint as their serial id:
\* an EventInfo id is its event config id, an ItemInfo id is <<event info id, item_id>>.
eventInfoRow(eventConfigID, name) ==
  [id |-> eventConfigID, pretix_events_config_id |-> eventConfigID,
   event_name |-> name, is_deleted |-> FALSE]

hasPretixEventInfo(eventsTbl, eventConfigID) ==
  \E r \in eventsTbl : r.pretix_events_config_id = eventConfigID

fetchPretixEventInfo(eventsTbl, eventConfigID) ==
  CHOOSE r \in eventsTbl : r.pretix_events_config_id = eventConfigID

insertPretixEventsInfo(eventsTbl, name, eventConfigID) ==
  eventsTbl \cup {eventInfoRow(eventConfigID, name)}

updatePretixEventsInfo(eventsTbl, id, name, isDeleted) ==
  {IF r.id = id THEN [r EXCEPT !.event_name = name, !.is_deleted = isDeleted] ELSE r
     : r \in eventsTbl}

\* active rows of the event only
fetchPretixItemsInfoByEvent(itemsTbl, eventInfoID) ==
  rowsInOrder({r \in itemsTbl : r.devconnect_pretix_events_info_id = eventInfoID
                                /\ ~r.is_deleted},
              [r \in itemsTbl |-> r.item_id])

\* upsert on (event info id, item_id)
insertPretixItemsInfo(itemsTbl, itemID, eventInfoID, name) ==
  IF \E r \in itemsTbl : r.id = <<eventInfoID, itemID>>
  THEN {IF r.id = <<eventInfoID, itemID>>
        THEN [r EXCEPT !.item_name = name, !.is_deleted = FALSE] ELSE r : r \in itemsTbl}
  ELSE itemsTbl \cup {[id |-> <<eventInfoID, itemID>>, item_id |-> itemID,
                       devconnect_pretix_events_info_id |-> eventInfoID,
                       item_name |-> name, is_deleted |-> FALSE]}

updatePretixItemsInfo(itemsTbl, id, name, isDeleted) ==
  {IF r.id = id THEN [r EXCEPT !.item_name = name, !.is_deleted = isDeleted] ELSE r
     : r \in itemsTbl}

softDeletePretixItemInfo(itemsTbl, id) ==
  {IF r.id = id THEN [r EXCEPT !.is_deleted = TRUE] ELSE r : r \in itemsTbl}

\* active tickets whose item info row belongs to the event
fetchDevconnectPretixTicketsByEvent(ticketsTbl, itemsTbl, eventsTbl, eventConfigID) ==
  rowsInOrder({t \in ticketsTbl :
                 /\ ~t.is_deleted
                 /\ \E i \in itemsTbl, ev \in eventsTbl :
                      /\ i.id = t.devconnect_pretix_items_info_id
                      /\ ev.id = i.devconnect_pretix_events_info_id
                      /\ ev.pretix_events_config_id = eventConfigID},
              [t \in ticketsTbl |-> t.position_id])

\* faulty variant: a ticket write also sets is_consumed
writeTicketFieldsConsumed(row, t) == [t EXCEPT !.position_id = row.position_id]

\* the columns a ticket write sets; is_consumed belongs to redemption
writeTicketFields(row, t) ==
  [row EXCEPT !.email = t.email, !.full_name = t.full_name,
              !.devconnect_pretix_items_info_id = t.devconnect_pretix_items_info_id,
              !.is_deleted = t.is_deleted, !.secret = t.secret]

\* upsert on position_id
insertDevconnectPretixTicket(ticketsTbl, t) ==
  IF \E r \in ticketsTbl : r.position_id = t.position_id
  THEN {IF r.position_id = t.position_id THEN writeTicketFields(r, t) ELSE r
          : r \in ticketsTbl}
  ELSE ticketsTbl \cup {t}

updateDevconnectPretixTicket(ticketsTbl, t) ==
  {IF r.position_id = t.position_id THEN writeTicketFields(r, t) ELSE r
     : r \in ticketsTbl}

softDeleteDevconnectPretixTicket(ticketsTbl, t) ==
  {IF r.position_id = t.position_id THEN [r EXCEPT !.is_deleted = TRUE] ELSE r
     : r \in ticketsTbl}

pretixTicketsDifferent(oldTicket, newTicket) ==
  \/ oldTicket.email # newTicket.email
  \/ oldTicket.full_name # newTicket.full_name
  \/ oldTicket.devconnect_pretix_items_info_id # newTicket.devconnect_pretix_items_info_id
  \/ oldTicket.is_deleted # newTicket.is_deleted
  \/ oldTicket.secret # newTicket.secret

\* ------------------------------------------------------- phase write plans
\* A plan is the sequence of row writes a phase issues, in program order.
\* faulty variant: the event-info phase writes nothing
eventInfoWritesNone(eventsTbl, eventConfigID, eventInfo) == <<>>

\* faulty variant: the event-info phase does not look for an existing row
eventInfoWritesAlwaysInsert(eventsTbl, eventConfigID, eventInfo) ==
  <<[op |-> "insertEvent", name |-> eventInfo.name.en, config |-> eventConfigID]>>

eventInfoWrites(eventsTbl, eventConfigID, eventInfo) ==
  IF ~hasPretixEventInfo(eventsTbl, eventConfigID)
  THEN <<[op |-> "insertEvent", name |-> eventInfo.name.en, config |-> eventConfigID]>>
  ELSE <<[op |-> "updateEvent", id |-> fetchPretixEventInfo(eventsTbl, eventConfigID).id,
          name |-> eventInfo.name.en]>>

\* faulty variant: the drift check is gone
activeItemMissingNever(activeItemIDs, itemsFromAPI) == FALSE

\* activeItemIDs.some((i) => !newItemIDsSet.has(i))
activeItemMissing(activeItemIDs, itemsFromAPI) ==
  \E k \in 1..Len(activeItemIDs) :
    ~hasKey(apiItemIdsOf(itemsFromAPI), activeItemIDs[k])

\* faulty variant: every existing active item is updated
itemChangedAlways(oldItem, i) == TRUE

\* oldItem.item_name !== getI18nString(i.name)
itemChanged(oldItem, i) == oldItem.item_name # getI18nString(i.name)

\* faulty variant: no item is ever taken as new
itemToInsertNever(existingItemsInfo, i) == FALSE

\* !existingItemsInfoByItemID.has(i.id.toString())
itemToInsert(existingItemsInfo, i) ==
  ~hasKey(itemIdsOf(existingItemsInfo), toString(i.id))

\* faulty variant: no existing item is ever taken as removed
itemToRemoveNever(newActiveItems, existing) == FALSE

\* !newActiveItemsByItemID.has(existing.item_id)
itemToRemove(newActiveItems, existing) ==
  ~hasKey(apiItemIdsOf(newActiveItems), existing.item_id)

itemInfoWrites(itemsTbl, eventInfoID, activeItemIDs, itemsFromAPI) ==
  LET newActiveItems == SelectSeq(itemsFromAPI,
                          LAMBDA i : toString(i.id) \in Range(activeItemIDs))
      existingItemsInfo == fetchPretixItemsInfoByEvent(itemsTbl, eventInfoID)
      exists(i) == hasKey(itemIdsOf(existingItemsInfo), toString(i.id))
      old(i) == getByKey(existingItemsInfo, itemIdsOf(existingItemsInfo), toString(i.id))
      itemsToInsert == SelectSeq(newActiveItems,
                         LAMBDA i : itemToInsert(existingItemsInfo, i))
      itemsToUpdate == SelectSeq(newActiveItems,
                         LAMBDA i : exists(i) /\ itemChanged(old(i), i))
      itemsToRemove == SelectSeq(existingItemsInfo,
                         LAMBDA x : itemToRemove(newActiveItems, x))
  IN  [k \in 1..Len(itemsToInsert) |->
         [op |-> "insertItem", item_id |-> toString(itemsToInsert[k].id),
          event |-> eventInfoID, name |-> getI18nString(itemsToInsert[k].name)]]
      \o [k \in 1..Len(itemsToUpdate) |->
         [op |-> "updateItem", id |-> old(itemsToUpdate[k]).id,
          name |-> getI18nString(itemsToUpdate[k].name)]]
      \o [k \in 1..Len(itemsToRemove) |->
         [op |-> "deleteItem", id |-> itemsToRemove[k].id]]

\* faulty variant: no existing ticket is ever taken as removed
ticketRemovedNever(ticketsFromPretix, existing) == FALSE

\* !newTicketsByPositionId.has(existing.position_id)
ticketRemoved(ticketsFromPretix, existing) ==
  ~hasKey(positionIdsOf(ticketsFromPretix), existing.position_id)

ticketWrites(ticketsTbl, itemsTbl, eventsTbl, eventConfigID, eventInfoID, pretixOrders) ==
  LET updatedItemsInfo == fetchPretixItemsInfoByEvent(itemsTbl, eventInfoID)
      ticketsFromPretix == ordersToDevconnectTickets(pretixOrders, updatedItemsInfo)
      existingTickets ==
        fetchDevconnectPretixTicketsByEvent(ticketsTbl, itemsTbl, eventsTbl, eventConfigID)
      exists(t) == hasKey(positionIdsOf(existingTickets), t.position_id)
      old(t) == getByKey(existingTickets, positionIdsOf(existingTickets), t.position_id)
      newTickets == SelectSeq(ticketsFromPretix, LAMBDA t : ~exists(t))
      updatedTickets == SelectSeq(ticketsFromPretix,
                          LAMBDA t : exists(t) /\ pretixTicketsDifferent(old(t), t))
      removedTickets == SelectSeq(existingTickets,
                          LAMBDA x : ticketRemoved(ticketsFromPretix, x))
  IN  [k \in 1..Len(newTickets) |-> [op |-> "insertTicket", ticket |-> newTickets[k]]]
      \o [k \in 1..Len(updatedTickets) |->
            [op |-> "updateTicket", ticket |-> updatedTickets[k]]]
      \o [k \in 1..Len(removedTickets) |->
            [op |-> "deleteTicket", ticket |-> removedTickets[k]]]

\* one row write applied to the three tables db = [events, items, tickets]
applyWrite(db, w) ==
  CASE w.op = "insertEvent" ->
         [db EXCEPT !.events = insertPretixEventsInfo(@, w.name, w.config)]
    [] w.op = "updateEvent" ->
         [db EXCEPT !.events = updatePretixEventsInfo(@, w.id, w.name, FALSE)]
    [] w.op = "insertItem" ->
         [db EXCEPT !.items = insertPretixItemsInfo(@, w.item_id, w.event, w.name)]
    [] w.op = "updateItem" ->
         [db EXCEPT !.items = updatePretixItemsInfo(@, w.id, w.name, FALSE)]
    [] w.op = "deleteItem" ->
         [db EXCEPT !.items = softDeletePretixItemInfo(@, w.id)]
    [] w.op = "insertTicket" ->
         [db EXCEPT !.tickets = insertDevconnectPretixTicket(@, w.ticket)]
    [] w.op = "updateTicket" ->
         [db EXCEPT !.tickets = updateDevconnectPretixTicket(@, w.ticket)]
    [] w.op = "deleteTicket" ->
         [db EXCEPT !.tickets = softDeleteDevconnectPretixTicket(@, w.ticket)]

\* the first n writes of a plan, applied in order
RECURSIVE applyWrites(_, _, _)
applyWrites(db, plan, n) ==
  IF n = 0 THEN db
  ELSE applyWrites(applyWrite(db, Head(plan)), Tail(plan), n - 1)

\* ------------------------------------------------------------------ state
VARIABLES
  organizers,      \* configuration: organizer id -> its events, in order
  activeItemIDs,   \* configuration: the allow-list of each event
  pretix,          \* what the provider currently serves, per event
  eventsInfo,      \* store: EventInfo rows
  itemsInfo,       \* store: ItemInfo rows
  tickets,         \* store: Ticket rows
  hasCompletedSyncSinceStarting,
  passPc,          \* position of trySync
  passesLeft,      \* passes still to be started
  faultsLeft,      \* store calls that may still throw
  orgPc,           \* position of each syncOrganizer task
  evPc,            \* position of each event's fetch / syncEvent task
  eventData,       \* fetched EventData of the pass, per event
  phaseResult,     \* return value of each phase of syncEvent, per event
  writeLog,        \* row writes issued for each event in the pass, in order
  reports,         \* rollbarService.reportError calls of the pass
  dbAtPassStart,   \* the three tables without the row writes of the current pass
  prevRun,         \* per event: the syncEvent run of the previous pass
  convPc,          \* position of a lone call of ordersToDevconnectTickets
  convOrders,      \* its argument orders
  convItemsInfo,   \* its argument itemsInfo
  convTickets,     \* its return value
  checkPc,         \* position of a lone call of checkEventData
  checkErrors,     \* its return value
  pretixAPI,       \* this.pretixAPI: 0 is the constructor's client, n the n-th replacement
  timeout,         \* this.timeout: 0 while unset, else the handle of the last timer set
  timers,          \* each timer handle: "unset", "pending", "fired" or "cleared"
  loopPc,          \* position of each trySync call made by the sync loop
  fetchLog,        \* <<call, client>> for every provider fetch the loop's calls started
  stoppedWaiting,  \* stop() was called between passes, no start or replaceApi since
  stoppedRunning,  \* stop() was called during a pass, no start or replaceApi since
  isZuzalu,        \* client: appConfig.isZuzalu
  encryptionKey,   \* client: an encryption key is saved in local storage
  pcds,            \* client: state.pcds, as the hash of the collection
  downloadedPCDs,  \* client: state.downloadedPCDs
  downloadingPCDs, \* client: state.downloadingPCDs
  loadedIssuedPCDs,   \* client: state.loadedIssuedPCDs
  loadingIssuedPCDs,  \* client: state.loadingIssuedPCDs
  uploadedUploadId,   \* client: state.uploadedUploadId, 0 while undefined
  uploadingUploadId,  \* client: state.uploadingUploadId, 0 while undefined
  syncPc,          \* client: position of each 'sync' action
  syncUploadId,    \* client: the local uploadId of each 'sync' action
  downloadStarts,  \* client: <<downloadedPCDs, downloadingPCDs>> as each download began
  uploadStarts     \* client: what each upload began with

vars == <<organizers, activeItemIDs, pretix, eventsInfo, itemsInfo, tickets,
          hasCompletedSyncSinceStarting, passPc, passesLeft, faultsLeft, orgPc, evPc,
          eventData, phaseResult, writeLog, reports, dbAtPassStart, prevRun,
          convPc, convOrders, convItemsInfo, convTickets, checkPc, checkErrors,
          pretixAPI, timeout, timers, loopPc, fetchLog, stoppedWaiting, stoppedRunning,
          isZuzalu, encryptionKey, pcds, downloadedPCDs, downloadingPCDs,
          loadedIssuedPCDs, loadingIssuedPCDs, uploadedUploadId, uploadingUploadId,
          syncPc, syncUploadId, downloadStarts, uploadStarts>>

envVars == <<organizers, activeItemIDs, pretix>>
storeVars == <<eventsInfo, itemsInfo, tickets>>
taskVars == <<orgPc, evPc, eventData>>
logVars == <<phaseResult, writeLog, reports>>
clientVars == <<isZuzalu, encryptionKey, pcds, downloadedPCDs, downloadingPCDs,
                loadedIssuedPCDs, loadingIssuedPCDs, uploadedUploadId, uploadingUploadId,
                syncPc, syncUploadId, downloadStarts, uploadStarts>>
convVars == <<convPc, convOrders, convItemsInfo, convTickets, checkPc, checkErrors, clientVars>>
loopVars == <<pretixAPI, timeout, timers, loopPc, fetchLog, stoppedWaiting, stoppedRunning>>

db == [events |-> eventsInfo, items |-> itemsInfo, tickets |-> tickets]

\* DevconnectPretixOrganizerConfig / DevconnectPretixEventConfig
ConfiguredOrgs == DOMAIN organizers
orgEvents(o) == organizers[o]
eventsOf(o) == Range(orgEvents(o))
ConfiguredEvents == UNION {eventsOf(o) : o \in ConfiguredOrgs}
eventConfig(e) == [id |-> e, activeItemIDs |-> activeItemIDs[e]]

noPhase == [eventInfo |-> "none", itemInfo |-> "none", tickets |-> "none"]
allPhasesOk(r) == r.eventInfo = "ok" /\ r.itemInfo = "ok" /\ r.tickets = "ok"
noData == EventData(goodSettings, "", <<>>, <<>>)
noRun == [ok |-> FALSE, data |-> noData, active |-> <<>>]

\* ------------------------------------------------------- provider scenarios
itemsBoth == <<Item(1, "n1", TRUE, TRUE, "null"), Item(2, "n2", TRUE, TRUE, "false")>>
itemsRenamed(nm) == <<Item(1, nm, TRUE, TRUE, "undefined"), Item(2, "n2", TRUE, TRUE, "null")>>
itemsOnly(id, nm) == <<Item(id, nm, TRUE, TRUE, "null")>>
itemsInvalid(generate) ==
  <<Item(1, "n1", TRUE, FALSE, "null"), Item(2, "n2", FALSE, TRUE, generate)>>

ordersBoth(p1, p2) ==
  <<Order("O1", "p", <<Position(p1, 1, "Al", "A@X.com")>>),
    Order("O2", "p", <<Position(p2, 2, "Bo", Null)>>)>>
ordersChanged(p1, p2) ==
  <<Order("O1", "p", <<Position(p1, 1, "Alan", "")>>),
    Order("O2", "n", <<Position(p2, 2, "Bo", Null)>>)>>

\* with two organizers
passChoices(e) ==
  CASE e = "e1" ->
         {EventData(goodSettings, "E1", itemsBoth, ordersBoth(11, 12)),
          EventData(goodSettings, "E1b", itemsRenamed("n1b"), ordersChanged(11, 12)),
          EventData(goodSettings, "E1", itemsOnly(2, "n2"), ordersBoth(11, 12)),
          EventData(eventSettings(FALSE), "E1", itemsBoth, ordersBoth(11, 12))}
    [] e = "e2" ->
         {EventData(goodSettings, "E2",
                    itemsBoth, <<Order("O3", "p", <<Position(21, 1, "Cy", "A@X.com")>>)>>),
          EventData(goodSettings, "E2", itemsInvalid("true"), <<>>)}
    [] e = "e3" ->
         {EventData(goodSettings, "E3",
                    itemsBoth, <<Order("O4", "p", <<Position(31, 2, "Di", Null)>>)>>)}
passActive(e) == {<<"1", "2">>}

\* with one event
eventChoices(e) ==
  {EventData(goodSettings, nm, items, orders) :
     nm \in {"E1", "E1b"},
     items \in {itemsBoth, itemsRenamed("n1b"), itemsOnly(2, "n2")},
     orders \in {<<>>, ordersBoth(11, 12), ordersChanged(11, 12)}}
eventActive(e) == {<<"1">>, <<"1", "2">>}

\* what the provider may serve for event e in a scenario
pretixChoices(scenario, e) ==
  IF scenario = "event" THEN eventChoices(e) ELSE passChoices(e)

\* ------------------------------------------------------------------- Init
noRows == [events |-> {}, items |-> {}, tickets |-> {}]

\* the tables d after a syncEvent run of e on data in which nothing failed
syncedTables(d, e, data, active) ==
  LET evs == eventInfoWrites(d.events, e, data.eventInfo)
      d1 == applyWrites(d, evs, Len(evs))
  IN  IF ~hasPretixEventInfo(d1.events, e) \/ activeItemMissing(active, data.items)
      THEN d1
      ELSE LET id == fetchPretixEventInfo(d1.events, e).id
               items == itemInfoWrites(d1.items, id, active, data.items)
               d2 == applyWrites(d1, items, Len(items))
               tkts == ticketWrites(d2.tickets, d2.items, d2.events, e, id, data.tickets)
           IN  applyWrites(d2, tkts, Len(tkts))

\* The store outlives the process: the service is constructed on a store that
\* is empty or holds the rows an earlier process synced.
storeOnStart(served, active) ==
  { noRows,
    syncedTables(syncedTables(syncedTables(noRows, "e1", served["e1"], active["e1"]),
                              "e2", served["e2"], active["e2"]),
                 "e3", served["e3"], active["e3"]) }

InitService ==
  /\ hasCompletedSyncSinceStarting = FALSE
  /\ passPc = "idle"
  /\ orgPc = [o \in Orgs |-> "none"]
  /\ evPc = [e \in Events |-> "none"]
  /\ eventData = [e \in Events |-> noData]
  /\ phaseResult = [e \in Events |-> noPhase]
  /\ writeLog = [e \in Events |-> <<>>]
  /\ reports = {}
  /\ dbAtPassStart = noRows
  /\ prevRun = [e \in Events |-> noRun]

\* the client's state before any action: nothing downloaded, loaded or uploaded
ClientFresh ==
  /\ pcds = 1
  /\ downloadedPCDs = FALSE
  /\ downloadingPCDs = FALSE
  /\ loadedIssuedPCDs = FALSE
  /\ loadingIssuedPCDs = FALSE
  /\ uploadedUploadId = 0
  /\ uploadingUploadId = 0
  /\ syncPc = [c \in 1..MaxSyncs |-> "none"]
  /\ syncUploadId = [c \in 1..MaxSyncs |-> 0]
  /\ downloadStarts = <<>>
  /\ uploadStarts = <<>>

\* no client is modelled
ClientIdle ==
  /\ isZuzalu = FALSE
  /\ encryptionKey = FALSE
  /\ ClientFresh

\* no lone call is under way
CallsIdle ==
  /\ convPc = "idle"
  /\ convOrders = <<>>
  /\ convItemsInfo = <<>>
  /\ convTickets = <<>>
  /\ checkPc = "idle"
  /\ checkErrors = <<>>

\* no lone conversion call is under way
ConvIdle ==
  /\ CallsIdle
  /\ ClientIdle

\* the sync loop was not started
LoopIdle ==
  /\ pretixAPI = 0
  /\ timeout = 0
  /\ timers = [t \in 1..MaxLoopPasses |-> "unset"]
  /\ loopPc = [p \in 1..MaxLoopPasses |-> "none"]
  /\ fetchLog = {}
  /\ stoppedWaiting = FALSE
  /\ stoppedRunning = FALSE

Init ==
  /\ organizers = [o \in Orgs |-> IF o = "A" THEN <<"e1", "e2">> ELSE <<"e3">>]
  /\ activeItemIDs = [e \in Events |-> <<"1", "2">>]
  /\ pretix = [e \in Events |->
                 CHOOSE d \in passChoices(e) : d.items = itemsBoth /\ d.settings = goodSettings]
  /\ \E d \in storeOnStart(pretix, activeItemIDs) :
       eventsInfo = d.events /\ itemsInfo = d.items /\ tickets = d.tickets
  /\ passesLeft = MaxPasses
  /\ faultsLeft = MaxStoreFaults
  /\ InitService
  /\ ConvIdle
  /\ LoopIdle

InitEvent ==
  /\ organizers = [o \in {"A"} |-> <<"e1">>]
  /\ activeItemIDs = [e \in Events |-> <<"1", "2">>]
  /\ pretix = [e \in Events |-> EventData(goodSettings, "E1", itemsBoth, ordersBoth(11, 12))]
  /\ eventsInfo = {} /\ itemsInfo = {} /\ tickets = {}
  /\ passesLeft = MaxEventPasses
  /\ faultsLeft = MaxEventStoreFaults
  /\ InitService
  /\ ConvIdle
  /\ LoopIdle

\* ------------------------------------------------------------ environment
\* The provider's data of one event changes between two passes (a change
\* during a pass is seen by the next pass only: a pass reads what it fetched).
PretixChange(e, scenario) ==
  /\ passPc = "loadConfig"
  /\ e \in ConfiguredEvents
  /\ \E d \in pretixChoices(scenario, e) \ {pretix[e]} : pretix' = [pretix EXCEPT ![e] = d]
  /\ UNCHANGED <<convVars, loopVars, organizers, activeItemIDs, storeVars, hasCompletedSyncSinceStarting,
                 passPc, passesLeft, faultsLeft, taskVars, logVars, dbAtPassStart, prevRun>>

\* The configured allow-list of one event changes between two passes.
ConfigChange(e) ==
  /\ passPc = "loadConfig"
  /\ e \in ConfiguredEvents
  /\ \E a \in eventActive(e) \ {activeItemIDs[e]} :
       activeItemIDs' = [activeItemIDs EXCEPT ![e] = a]
  /\ UNCHANGED <<convVars, loopVars, organizers, pretix, storeVars, hasCompletedSyncSinceStarting,
                 passPc, passesLeft, faultsLeft, taskVars, logVars, dbAtPassStart, prevRun>>

\* Downstream redemption marks an active ticket consumed.
ConsumeTicket ==
  /\ passPc = "loadConfig"
  /\ \E t \in tickets :
       /\ ~t.is_deleted /\ ~t.is_consumed
       /\ tickets' = (tickets \ {t}) \cup {[t EXCEPT !.is_consumed = TRUE]}
  /\ dbAtPassStart' = [dbAtPassStart EXCEPT !.tickets = tickets']
  /\ UNCHANGED <<convVars, loopVars, envVars, eventsInfo, itemsInfo, hasCompletedSyncSinceStarting,
                 passPc, passesLeft, faultsLeft, taskVars, logVars, prevRun>>

\* ---------------------------------------------------------------- trySync
\* call p of trySync has returned: the closure sets the next timer
setTimeout(p) ==
  /\ timers' = [timers EXCEPT ![p] = "pending"]
  /\ timeout' = p

\* the number of the pass the loop's closure is awaiting
passNo == 1 + Cardinality({t \in DOMAIN timers : timers[t] # "unset"})

\* faulty variant: the catch block of trySync throws the error on
trySyncRethrows == "rejected"

\* catch (e) of trySync: the error is reported and trySync returns normally
trySyncCaught == "idle"

\* the loop's closure after `await this.trySync()`: a rejected await leaves
\* the closure before it reaches setTimeout
closureResumes(pc) ==
  IF pc = "idle" THEN setTimeout(passNo) ELSE UNCHANGED <<timers, timeout>>

\* trySync is entered (by startSyncLoop or by the timer that fires): the
\* configuration load is awaited.
TrySync ==
  /\ passPc = "idle"
  /\ passesLeft > 0
  /\ timers' = [t \in DOMAIN timers |-> IF timers[t] = "pending" THEN "fired" ELSE timers[t]]
  /\ UNCHANGED <<pretixAPI, timeout, loopPc, fetchLog, stoppedWaiting, stoppedRunning>>
  /\ passPc' = "loadConfig"
  /\ passesLeft' = passesLeft - 1
  /\ orgPc' = [o \in Orgs |-> "none"]
  /\ evPc' = [e \in Events |-> "none"]
  /\ eventData' = [e \in Events |-> noData]
  /\ phaseResult' = [e \in Events |-> noPhase]
  /\ writeLog' = [e \in Events |-> <<>>]
  /\ reports' = {}
  /\ dbAtPassStart' = db
  /\ prevRun' = [e \in Events |->
                   IF allPhasesOk(phaseResult[e])
                   THEN [ok |-> TRUE, data |-> eventData[e], active |-> activeItemIDs[e]]
                   ELSE noRun]
  /\ UNCHANGED <<convVars, envVars, storeVars, hasCompletedSyncSinceStarting, faultsLeft>>

\* faulty variant: a configuration that could not be loaded is not thrown
\* on; the pass goes on with nothing to sync and reloads
noConfigIgnored == "reload"

\* getDevconnectPretixConfig threw, or returned nothing and trySync throws
\* "Pretix Config could not be loaded": control is in the catch block
noConfigThrows == trySyncCaught

\* getDevconnectPretixConfig throws or returns nothing: the pass is abandoned.
ConfigLoadFails ==
  /\ passPc = "loadConfig"
  /\ passPc' = noConfigThrows
  /\ closureResumes(passPc')
  /\ reports' = reports \cup {<<"pass", "config">>}
  /\ UNCHANGED <<pretixAPI, loopPc, fetchLog, stoppedWaiting, stoppedRunning>>
  /\ UNCHANGED <<convVars, envVars, storeVars, hasCompletedSyncSinceStarting, passesLeft, faultsLeft,
                 taskVars, phaseResult, writeLog, dbAtPassStart, prevRun>>

\* sync(config): one syncOrganizer task per organizer, each of which starts
\* fetchEventData for every event; every task runs to its first await.
sync ==
  /\ passPc = "loadConfig"
  /\ passPc' = "sync"
  /\ orgPc' = [o \in Orgs |-> IF o \in ConfiguredOrgs THEN "fetching" ELSE "none"]
  /\ evPc' = [e \in Events |-> IF e \in ConfiguredEvents THEN "fetching" ELSE "none"]
  /\ UNCHANGED <<convVars, loopVars, envVars, storeVars, hasCompletedSyncSinceStarting, passesLeft, faultsLeft,
                 eventData, logVars, dbAtPassStart, prevRun>>

\* ---------------------------------------------------------- syncOrganizer
\* the four provider calls of fetchEventData, in order
fetchCalls == <<"fetchEventSettings", "fetchItems", "fetchEvent", "fetchOrders">>

\* Promise.all(eventDataPromises) rejects as soon as one fetchEventData rejects;
\* the catch block of syncOrganizer reports and the task resolves. The fetches
\* of the sibling events have no continuation left: their results are dropped.
\* faulty variant: only the failed event is given up, fetched siblings are synced
abortOnlyFailed(o, pcs) ==
  [e \in Events |->
     IF e \in eventsOf(o) /\ pcs[e] = "fetched" THEN "eventInfo" ELSE pcs[e]]

\* faulty variant: the error is swallowed and every event of the organizer is synced
abortNothing(o, pcs) ==
  [e \in Events |-> IF e \in eventsOf(o) THEN "eventInfo" ELSE pcs[e]]

abortOrganizer(o, pcs) ==
  [e \in Events |->
     IF e \in eventsOf(o) /\ pcs[e] # "fetchFailed" THEN "dropped" ELSE pcs[e]]

\* faulty variant: the catch block rethrows
organizerRethrows == "rejected"

\* state of the syncOrganizer task once its catch block has run
organizerCaught == "aborted"

\* fetchEventData(e) runs its four calls in order against a provider that does
\* not change meanwhile: all return (failed = 0) or call number `failed` throws.
fetchEventData(e) ==
  /\ passPc = "sync"
  /\ orgPc[orgOf(e)] = "fetching"
  /\ evPc[e] = "fetching"
  /\ \E failed \in 0..Len(fetchCalls) :
       IF failed = 0
       THEN /\ evPc' = [evPc EXCEPT ![e] = "fetched"]
            /\ eventData' = [eventData EXCEPT ![e] = pretix[e]]
            /\ UNCHANGED <<orgPc, reports>>
       ELSE /\ evPc' = abortOrganizer(orgOf(e), [evPc EXCEPT ![e] = "fetchFailed"])
            /\ orgPc' = [orgPc EXCEPT ![orgOf(e)] = organizerCaught]
            /\ reports' = reports \cup {<<"organizer", orgOf(e), "fetch", e>>}
            /\ UNCHANGED eventData
  /\ UNCHANGED <<convVars, loopVars, envVars, storeVars, hasCompletedSyncSinceStarting, passPc, passesLeft,
                 faultsLeft, phaseResult, writeLog, dbAtPassStart, prevRun>>

\* faulty variant: the validation stops at the first event with a violation
RECURSIVE organizerErrorsFirstOnly(_, _, _)
organizerErrorsFirstOnly(events, data, active) ==
  IF events = <<>> THEN <<>>
  ELSE LET first == checkEventData(data[Head(events)],
                                   [id |-> Head(events), activeItemIDs |-> active[Head(events)]])
       IN  IF Len(first) > 0 THEN first
           ELSE organizerErrorsFirstOnly(Tail(events), data, active)

\* errors.push(...this.checkEventData(data, event)) over allEventData
RECURSIVE organizerErrors(_, _, _)
organizerErrors(events, data, active) ==
  IF events = <<>> THEN <<>>
  ELSE checkEventData(data[Head(events)],
                      [id |-> Head(events), activeItemIDs |-> active[Head(events)]])
       \o organizerErrors(Tail(events), data, active)

\* faulty variant: violations do not stop the organizer
organizerVerdictLenient(errors) == "sync"

\* what syncOrganizer does with the collected violations
organizerVerdict(errors) == IF Len(errors) > 0 THEN "abort" ELSE "sync"

\* All event data of the organizer has arrived: validate every event, then
\* either throw (caught, reported) or start syncEvent for every event.
syncOrganizer(o) ==
  /\ passPc = "sync"
  /\ orgPc[o] = "fetching"
  /\ \A e \in eventsOf(o) : evPc[e] = "fetched"
  /\ LET errors == organizerErrors(orgEvents(o), eventData, activeItemIDs)
     IN  IF organizerVerdict(errors) = "abort"
         THEN /\ orgPc' = [orgPc EXCEPT ![o] = organizerCaught]
              /\ evPc' = abortOrganizer(o, evPc)
              /\ reports' = reports \cup {<<"organizer", o, "validation", errors>>}
         ELSE /\ orgPc' = [orgPc EXCEPT ![o] = "syncing"]
              /\ evPc' = [e \in Events |-> IF e \in eventsOf(o) THEN "eventInfo" ELSE evPc[e]]
              /\ UNCHANGED reports
  /\ UNCHANGED <<convVars, loopVars, envVars, storeVars, hasCompletedSyncSinceStarting, passPc, passesLeft,
                 faultsLeft, eventData, phaseResult, writeLog, dbAtPassStart, prevRun>>

\* Promise.allSettled(eventSyncPromises) resolves: the organizer task is done.
organizerSettled(o) ==
  /\ passPc = "sync"
  /\ orgPc[o] = "syncing"
  /\ \A e \in eventsOf(o) : evPc[e] = "done"
  /\ orgPc' = [orgPc EXCEPT ![o] = "settled"]
  /\ UNCHANGED <<convVars, loopVars, envVars, storeVars, hasCompletedSyncSinceStarting, passPc, passesLeft,
                 faultsLeft, evPc, eventData, logVars, dbAtPassStart, prevRun>>

\* -------------------------------------------------------------- syncEvent
\* faulty variant: syncEvent ignores the return value of a phase
syncEventNextIgnoring(phase, ok) ==
  CASE phase = "eventInfo" -> "itemInfo"
    [] phase = "itemInfo" -> "tickets"
    [] phase = "tickets" -> "done"

\* where syncEvent goes after a phase returned ok
syncEventNext(phase, ok) ==
  IF ~ok THEN "done"
  ELSE CASE phase = "eventInfo" -> "itemInfo"
         [] phase = "itemInfo" -> "tickets"
         [] phase = "tickets" -> "done"

\* faulty variant: a phase that fails takes back the rows it has written
rowsRolledBack(d, plan, n, ok) == IF ok THEN applyWrites(d, plan, n) ELSE d

\* the tables after the first n awaited writes of a phase: every write is a
\* statement of its own on the pool, the catch block undoes nothing
rowsWritten(d, plan, n, ok) == applyWrites(d, plan, n)

\* A phase issued the first n writes of its plan and returned ok.
phaseOutcome(e, phase, plan, n, ok, tag) ==
  /\ LET after == rowsWritten(db, plan, n, ok)
     IN  /\ eventsInfo' = after.events
         /\ itemsInfo' = after.items
         /\ tickets' = after.tickets
  /\ writeLog' = [writeLog EXCEPT ![e] = @ \o SubSeq(plan, 1, n)]
  /\ phaseResult' = [phaseResult EXCEPT ![e][phase] = IF ok THEN "ok" ELSE "fail"]
  /\ reports' = IF ok THEN reports ELSE reports \cup {<<phase, e, tag>>}
  /\ evPc' = [evPc EXCEPT ![e] = syncEventNext(phase, ok)]
  /\ UNCHANGED <<convVars, loopVars, envVars, hasCompletedSyncSinceStarting, passPc, passesLeft, orgPc,
                 eventData, dbAtPassStart, prevRun>>

\* No store call throws (all writes applied), or one throws after n row writes
\* were applied (n = 0 also stands for a read that throws).
phaseRuns(e, phase, plan) ==
  \/ phaseOutcome(e, phase, plan, Len(plan), TRUE, "ok") /\ UNCHANGED faultsLeft
  \/ /\ faultsLeft > 0
     /\ faultsLeft' = faultsLeft - 1
     /\ \E n \in 0..(IF Len(plan) = 0 THEN 0 ELSE Len(plan) - 1) :
          phaseOutcome(e, phase, plan, n, FALSE, "store")

phaseThrows(e, phase, tag) ==
  phaseOutcome(e, phase, <<>>, 0, FALSE, tag) /\ UNCHANGED faultsLeft

syncEventInfos(e) ==
  /\ evPc[e] = "eventInfo"
  /\ phaseRuns(e, "eventInfo", eventInfoWrites(eventsInfo, e, eventData[e].eventInfo))

syncItemInfos(e) ==
  /\ evPc[e] = "itemInfo"
  /\ IF ~hasPretixEventInfo(eventsInfo, e)
     THEN phaseThrows(e, "itemInfo", "no event info")
     ELSE IF activeItemMissing(activeItemIDs[e], eventData[e].items)
     THEN phaseThrows(e, "itemInfo", "drift")
     ELSE phaseRuns(e, "itemInfo",
                    itemInfoWrites(itemsInfo, fetchPretixEventInfo(eventsInfo, e).id,
                                   activeItemIDs[e], eventData[e].items))

syncTickets(e) ==
  /\ evPc[e] = "tickets"
  /\ IF ~hasPretixEventInfo(eventsInfo, e)
     THEN phaseThrows(e, "tickets", "no event info")
     ELSE phaseRuns(e, "tickets",
                    ticketWrites(tickets, itemsInfo, eventsInfo, e,
                                 fetchPretixEventInfo(eventsInfo, e).id,
                                 eventData[e].tickets))

\* ------------------------------------------------------- end of the pass
\* Promise.all(organizerSyncPromises) settles: resolved when every organizer
\* task resolved, rejected as soon as one rejected (caught and reported).
syncSettled ==
  /\ passPc = "sync"
  /\ \/ \A o \in ConfiguredOrgs : orgPc[o] \in {"aborted", "settled"}
     \/ \E o \in ConfiguredOrgs : orgPc[o] = "rejected"
  /\ passPc' = "reload"
  /\ UNCHANGED <<convVars, loopVars, envVars, storeVars, hasCompletedSyncSinceStarting, passesLeft, faultsLeft,
                 taskVars, logVars, dbAtPassStart, prevRun>>

\* semaphoreService.reload() returns or throws; the flag is set on success.
semaphoreReload ==
  /\ passPc = "reload"
  /\ \E ok \in BOOLEAN :
       IF ok
       THEN /\ passPc' = "idle"
            /\ hasCompletedSyncSinceStarting' = TRUE
            /\ UNCHANGED reports
       ELSE /\ passPc' = trySyncCaught
            /\ reports' = reports \cup {<<"pass", "reload">>}
            /\ UNCHANGED hasCompletedSyncSinceStarting
  /\ closureResumes(passPc')
  /\ UNCHANGED <<pretixAPI, loopPc, fetchLog, stoppedWaiting, stoppedRunning>>
  /\ UNCHANGED <<convVars, envVars, storeVars, passesLeft, faultsLeft, taskVars, phaseResult,
                 writeLog, dbAtPassStart, prevRun>>

\* ------------------------------------------------------------------- Next
Pass ==
  \/ TrySync
  \/ ConfigLoadFails
  \/ sync
  \/ \E e \in Events : fetchEventData(e)
  \/ \E o \in Orgs : syncOrganizer(o)
  \/ \E e \in Events : syncEventInfos(e)
  \/ \E e \in Events : syncItemInfos(e)
  \/ \E e \in Events : syncTickets(e)
  \/ \E o \in Orgs : organizerSettled(o)
  \/ syncSettled
  \/ semaphoreReload

\* two organizers, three events
Next ==
  \/ \E e \in Events : PretixChange(e, "service")
  \/ Pass

Spec == Init /\ [][Next]_vars

\* one organizer with one event, over several passes
NextEvent ==
  \/ \E e \in Events : PretixChange(e, "event")
  \/ \E e \in Events : ConfigChange(e)
  \/ ConsumeTicket
  \/ Pass

SpecEvent == InitEvent /\ [][NextEvent]_vars

\* ------------------------------------------------------- the loop retrying
\* One organizer with two events. The configuration and the provider's data
\* are valid and stay as they are; the store on start is empty or holds what
\* an earlier process synced from other provider data and other allow-lists.
\* Any fetch, any store call, the configuration load and the reload may fail.
retryServed ==
  [e \in Events |->
     IF e = "e1"
     THEN EventData(goodSettings, "E1b", itemsRenamed("n1b"), ordersChanged(11, 12))
     ELSE EventData(goodSettings, "E2", itemsBoth,
                    <<Order("O3", "p", <<Position(21, 1, "Cy", "A@X.com")>>)>>)]

retryStoreOnStart ==
  LET earlier == EventData(goodSettings, "E1", itemsBoth, ordersBoth(11, 12))
      d0 == syncedTables(syncedTables(noRows, "e1", earlier, <<"1", "2">>),
                         "e2", retryServed["e2"], <<"1", "2">>)
      d1 == syncedTables(d0, "e1", earlier, <<"1">>)
  IN  {noRows, d0, d1}

InitRetry ==
  /\ organizers = [o \in {"A"} |-> <<"e1", "e2">>]
  /\ activeItemIDs = [e \in Events |-> <<"1", "2">>]
  /\ pretix = retryServed
  /\ \E d \in retryStoreOnStart :
       eventsInfo = d.events /\ itemsInfo = d.items /\ tickets = d.tickets
  /\ passesLeft = MaxRetryPasses
  /\ faultsLeft = MaxRetryFaults
  /\ InitService
  /\ ConvIdle
  /\ LoopIdle

NextRetry == Pass

\* Every await of a pass settles and the timer the loop has set fires: a step
\* of the pass that can be taken is taken.
SpecRetry == InitRetry /\ [][NextRetry]_vars /\ WF_vars(NextRetry)

\* ------------------------------------------ ordersToDevconnectTickets alone
\* what one position with a given id may hold
positionChoices(id) ==
  {Position(id, item, "N", mail) : item \in {1, 2}, mail \in {Null, "", "A@X.com"}}

\* the position lists of at most n positions, position k having id ids[k]
positionLists(ids, n) ==
  UNION {{ps \in [1..m -> UNION {positionChoices(ids[k]) : k \in 1..m}] :
            \A k \in 1..m : ps[k].id = ids[k]} : m \in 0..n}

\* two orders of any status
orderLists ==
  {<<Order("O1", st1, ps1), Order("O2", st2, ps2)>> :
     st1 \in {"p", "n"}, ps1 \in positionLists(<<11>>, 1),
     st2 \in {"p", "n", "c"}, ps2 \in positionLists(<<12, 21, 31>>, MaxPositions)}

\* the active ItemInfo rows the ticket phase may hand over
itemInfoRow(k) ==
  [id |-> <<"e1", k>>, item_id |-> k, devconnect_pretix_events_info_id |-> "e1",
   item_name |-> "n", is_deleted |-> FALSE]
itemsInfoLists ==
  {<<>>, <<itemInfoRow("1")>>, <<itemInfoRow("2")>>, <<itemInfoRow("1"), itemInfoRow("2")>>}

InitConvert ==
  /\ organizers = [o \in {"A"} |-> <<"e1">>]
  /\ activeItemIDs = [e \in Events |-> <<"1", "2">>]
  /\ pretix = [e \in Events |-> EventData(goodSettings, "E1", itemsBoth, ordersBoth(11, 12))]
  /\ eventsInfo = {} /\ itemsInfo = {} /\ tickets = {}
  /\ passesLeft = 0
  /\ faultsLeft = 0
  /\ InitService
  /\ LoopIdle
  /\ convPc = "called"
  /\ convOrders \in orderLists
  /\ convItemsInfo \in itemsInfoLists
  /\ convTickets = <<>>
  /\ checkPc = "idle"
  /\ checkErrors = <<>>
  /\ ClientIdle

\* ordersToDevconnectTickets(orders, itemsInfo) returns
returnTickets ==
  /\ convPc = "called"
  /\ convPc' = "returned"
  /\ convTickets' = ordersToDevconnectTickets(convOrders, convItemsInfo)
  /\ UNCHANGED <<envVars, storeVars, hasCompletedSyncSinceStarting, passPc, passesLeft,
                 faultsLeft, taskVars, logVars, dbAtPassStart, prevRun,
                 convOrders, convItemsInfo, checkPc, checkErrors, loopVars, clientVars>>

NextConvert == returnTickets

SpecConvert == InitConvert /\ [][NextConvert]_vars

\* ------------------------------------------------- a lone checkEventData call
\* the item ids the provider may serve to the call
checkItemIds == SubSeq(<<1, 2, 11, 12>>, 1, MaxCheckItems)

\* the values of DevconnectPretixItem.generate_tickets
generateChoices == {"null", "undefined", "false", "true"}

\* the item lists over the first n ids: every id absent, or present with any
\* combination of admission, personalized and generate_tickets
RECURSIVE checkItemLists(_)
checkItemLists(n) ==
  IF n = 0 THEN {<<>>}
  ELSE LET rest == checkItemLists(n - 1)
       IN  rest \cup {r \o <<Item(checkItemIds[n], "n", adm, pers, gen)>> :
                        r \in rest, adm \in BOOLEAN, pers \in BOOLEAN, gen \in generateChoices}

\* the allow-lists over the first n ids
RECURSIVE checkActiveLists(_)
checkActiveLists(n) ==
  IF n = 0 THEN {<<>>}
  ELSE LET rest == checkActiveLists(n - 1)
       IN  rest \cup {r \o <<toString(checkItemIds[n])>> : r \in rest}

checkSettings ==
  {[attendee_emails_asked |-> asked, attendee_emails_required |-> required] :
     asked \in BOOLEAN, required \in BOOLEAN}

InitCheck ==
  /\ organizers = [o \in {"A"} |-> <<"e1">>]
  /\ \E active \in checkActiveLists(MaxCheckItems) :
       activeItemIDs = [e \in Events |-> active]
  /\ \E settings \in checkSettings, items \in checkItemLists(MaxCheckItems) :
       pretix = [e \in Events |-> EventData(settings, "E1", items, <<>>)]
  /\ eventsInfo = {} /\ itemsInfo = {} /\ tickets = {}
  /\ passesLeft = 0
  /\ faultsLeft = 0
  /\ InitService
  /\ LoopIdle
  /\ convPc = "idle"
  /\ convOrders = <<>>
  /\ convItemsInfo = <<>>
  /\ convTickets = <<>>
  /\ checkPc = "called"
  /\ checkErrors = <<>>
  /\ ClientIdle

\* checkEventData(eventData, eventConfig) returns
returnErrors ==
  /\ checkPc = "called"
  /\ checkPc' = "returned"
  /\ checkErrors' = checkEventData(pretix["e1"], eventConfig("e1"))
  /\ UNCHANGED <<envVars, storeVars, hasCompletedSyncSinceStarting, passPc, passesLeft,
                 faultsLeft, taskVars, logVars, dbAtPassStart, prevRun,
                 convPc, convOrders, convItemsInfo, convTickets, loopVars, clientVars>>

NextCheck == returnErrors

SpecCheck == InitCheck /\ [][NextCheck]_vars

\* ----------------------------------------------------------- the sync loop
\* The loop's trySync calls are numbered in the order they start; the timer a
\* call sets when it has returned carries the call's number as its handle.
\* What a pass does to the store is left out here: a call loads the
\* configuration, starts two provider fetches, reloads the groups and returns.
engineVars == <<envVars, storeVars, passPc, passesLeft, faultsLeft, taskVars, logVars,
                dbAtPassStart, prevRun>>

inFlight == {p \in 1..MaxLoopPasses : loopPc[p] \in {"loadConfig", "fetch1", "fetch2", "reload"}}
pendingTimers == {t \in 1..MaxLoopPasses : timers[t] = "pending"}
loopRunning == inFlight # {} \/ pendingTimers # {}
freeCalls == {p \in 1..MaxLoopPasses : loopPc[p] = "none"}

\* the closure trySync is entered: this.trySync() is called
callTrySync(pcs) ==
  LET p == CHOOSE q \in freeCalls : \A r \in freeCalls : q <= r
  IN  [pcs EXCEPT ![p] = "loadConfig"]

\* clearTimeout(this.timeout) when this.timeout is set
clearTimeout(ts) ==
  IF timeout # 0 /\ ts[timeout] = "pending" THEN [ts EXCEPT ![timeout] = "cleared"] ELSE ts

\* startSyncLoop(), called on a service whose loop is not running
startSyncLoop ==
  /\ ~loopRunning
  /\ freeCalls # {}
  /\ loopPc' = callTrySync(loopPc)
  /\ stoppedWaiting' = FALSE
  /\ stoppedRunning' = FALSE
  /\ UNCHANGED <<engineVars, convVars, hasCompletedSyncSinceStarting,
                 pretixAPI, timeout, timers, fetchLog>>

\* a pending timer fires and calls the closure again
timerFires(t) ==
  /\ timers[t] = "pending"
  /\ freeCalls # {}
  /\ timers' = [timers EXCEPT ![t] = "fired"]
  /\ loopPc' = callTrySync(loopPc)
  /\ UNCHANGED <<engineVars, convVars, hasCompletedSyncSinceStarting,
                 pretixAPI, timeout, fetchLog, stoppedWaiting, stoppedRunning>>

\* stop()
stop ==
  /\ timers' = clearTimeout(timers)
  /\ stoppedWaiting' = (stoppedWaiting \/ (pendingTimers # {} /\ inFlight = {}))
  /\ stoppedRunning' = (stoppedRunning \/ inFlight # {})
  /\ UNCHANGED <<engineVars, convVars, hasCompletedSyncSinceStarting,
                 pretixAPI, timeout, loopPc, fetchLog>>

\* faulty variant: replaceApi never restarts the loop
restartLoopNever(wasRunning) == FALSE

\* if (wasRunning) { this.startSyncLoop(); }
restartLoop(wasRunning) == wasRunning

\* replaceApi(newAPI)
replaceApi ==
  /\ pretixAPI < MaxSwaps
  /\ LET wasRunning == timeout # 0
     IN  /\ restartLoop(wasRunning) => freeCalls # {}
         /\ timers' = IF wasRunning THEN clearTimeout(timers) ELSE timers
         /\ loopPc' = IF restartLoop(wasRunning) THEN callTrySync(loopPc) ELSE loopPc
  /\ pretixAPI' = pretixAPI + 1
  /\ hasCompletedSyncSinceStarting' = FALSE
  /\ stoppedWaiting' = FALSE
  /\ stoppedRunning' = FALSE
  /\ UNCHANGED <<engineVars, convVars, timeout, fetchLog>>

\* faulty variant: the closure does not await trySync before it sets the timer
trySyncNotAwaited(pc) == TRUE

\* `await this.trySync()`: the closure goes on once the call has returned
trySyncAwaited(pc) == pc = "returned"

\* the closure of call p, the call being at pc
closureAfter(p, pc) ==
  IF trySyncAwaited(pc) THEN setTimeout(p) ELSE UNCHANGED <<timers, timeout>>

\* getDevconnectPretixConfig returns, or throws and trySync returns
loopLoadConfig(p) ==
  /\ loopPc[p] = "loadConfig"
  /\ \E pc \in {"fetch1", "returned"} :
       /\ loopPc' = [loopPc EXCEPT ![p] = pc]
       /\ closureAfter(p, pc)
  /\ UNCHANGED <<engineVars, convVars, hasCompletedSyncSinceStarting,
                 pretixAPI, fetchLog, stoppedWaiting, stoppedRunning>>

\* a fetch call on this.pretixAPI is started
loopFetch(p) ==
  /\ loopPc[p] \in {"fetch1", "fetch2"}
  /\ loopPc' = [loopPc EXCEPT ![p] = IF @ = "fetch1" THEN "fetch2" ELSE "reload"]
  /\ fetchLog' = fetchLog \cup {<<p, pretixAPI>>}
  /\ UNCHANGED <<engineVars, convVars, hasCompletedSyncSinceStarting,
                 pretixAPI, timeout, timers, stoppedWaiting, stoppedRunning>>

\* semaphoreService.reload() returns and the flag is set, or it throws;
\* trySync returns
loopReload(p) ==
  /\ loopPc[p] = "reload"
  /\ loopPc' = [loopPc EXCEPT ![p] = "returned"]
  /\ \E ok \in BOOLEAN :
       hasCompletedSyncSinceStarting' = (IF ok THEN TRUE ELSE hasCompletedSyncSinceStarting)
  /\ closureAfter(p, "returned")
  /\ UNCHANGED <<engineVars, convVars, pretixAPI, fetchLog, stoppedWaiting, stoppedRunning>>

InitLoop ==
  /\ organizers = [o \in {"A"} |-> <<"e1">>]
  /\ activeItemIDs = [e \in Events |-> <<"1", "2">>]
  /\ pretix = [e \in Events |-> EventData(goodSettings, "E1", itemsBoth, ordersBoth(11, 12))]
  /\ eventsInfo = {} /\ itemsInfo = {} /\ tickets = {}
  /\ passesLeft = 0
  /\ faultsLeft = 0
  /\ InitService
  /\ ConvIdle
  /\ LoopIdle

NextLoop ==
  \/ startSyncLoop
  \/ \E t \in 1..MaxLoopPasses : timerFires(t)
  \/ stop
  \/ replaceApi
  \/ \E p \in 1..MaxLoopPasses : loopLoadConfig(p)
  \/ \E p \in 1..MaxLoopPasses : loopFetch(p)
  \/ \E p \in 1..MaxLoopPasses : loopReload(p)

SpecLoop == InitLoop /\ [][NextLoop]_vars

\* ------------------------------------------------- the client's sync action
\* A 'sync' action reads the fields of `state` when the statement that reads
\* them runs, and update(...) changes them at once; a step is the code between
\* two awaits. The actions are numbered in the order they are dispatched.
\* The collection is modelled by its hash: every change yields a hash the
\* collection never had before.
serverVars == <<engineVars, hasCompletedSyncSinceStarting, loopVars,
                convPc, convOrders, convItemsInfo, convTickets, checkPc, checkErrors>>

syncsInFlight(pc) == {c \in 1..MaxSyncs : syncPc[c] = pc}
freeSyncs == {c \in 1..MaxSyncs : syncPc[c] = "none"}

\* genPassport: a new collection and a new encryption key are saved
genPassport ==
  /\ ~encryptionKey
  /\ encryptionKey' = TRUE
  /\ pcds' = pcds + 1
  /\ UNCHANGED <<serverVars, isZuzalu, downloadedPCDs, downloadingPCDs, loadedIssuedPCDs,
                 loadingIssuedPCDs, uploadedUploadId, uploadingUploadId, syncPc,
                 syncUploadId, downloadStarts, uploadStarts>>

\* addPCDs: the collection changes and is saved
addPCDs ==
  /\ pcds < MaxHash
  /\ pcds' = pcds + 1
  /\ UNCHANGED <<serverVars, isZuzalu, encryptionKey, downloadedPCDs, downloadingPCDs,
                 loadedIssuedPCDs, loadingIssuedPCDs, uploadedUploadId, uploadingUploadId,
                 syncPc, syncUploadId, downloadStarts, uploadStarts>>

\* dispatch({type: "sync"}): sync is entered and awaits loadEncryptionKey()
dispatchSync ==
  /\ freeSyncs # {}
  /\ LET c == CHOOSE q \in freeSyncs : \A r \in freeSyncs : q <= r
     IN  syncPc' = [syncPc EXCEPT ![c] = "loadKey"]
  /\ UNCHANGED <<serverVars, isZuzalu, encryptionKey, pcds, downloadedPCDs, downloadingPCDs,
                 loadedIssuedPCDs, loadingIssuedPCDs, uploadedUploadId, uploadingUploadId,
                 syncUploadId, downloadStarts, uploadStarts>>

\* faulty variant: a download in progress does not keep a second one from starting
downloadNeededWhileDownloading(downloaded, downloading) == ~downloaded

\* !state.downloadedPCDs && !state.downloadingPCDs
downloadNeeded(downloaded, downloading) == ~downloaded /\ ~downloading

\* state.downloadingPCDs || !state.downloadedPCDs
downloadPending(downloaded, downloading) == downloading \/ ~downloaded

\* !appConfig.isZuzalu && !state.loadedIssuedPCDs && !state.loadingIssuedPCDs
issuedNeeded(zuzalu, loaded, loading) == ~zuzalu /\ ~loaded /\ ~loading

\* !appConfig.isZuzalu && !state.loadedIssuedPCDs && state.loadingIssuedPCDs
issuedPending(zuzalu, loaded, loading) == ~zuzalu /\ ~loaded /\ loading

\* what sync does once loadEncryptionKey() has returned, up to its next await
syncBranch ==
  IF ~encryptionKey THEN "noKey"
  ELSE IF downloadNeeded(downloadedPCDs, downloadingPCDs) THEN "download"
  ELSE IF downloadPending(downloadedPCDs, downloadingPCDs) THEN "return"
  ELSE IF issuedNeeded(isZuzalu, loadedIssuedPCDs, loadingIssuedPCDs) THEN "loadIssued"
  ELSE IF issuedPending(isZuzalu, loadedIssuedPCDs, loadingIssuedPCDs) THEN "return"
  ELSE "getHash"

\* loadEncryptionKey() has returned: sync returns, or starts the download, or
\* starts loading the issued PCDs, or calls state.pcds.getHash()
syncLoadKey(c) ==
  /\ syncPc[c] = "loadKey"
  /\ syncPc' = [syncPc EXCEPT ![c] =
                  CASE syncBranch = "download" -> "download"
                    [] syncBranch = "loadIssued" -> "loadIssued"
                    [] syncBranch = "getHash" -> "getHash"
                    [] OTHER -> "returned"]
  /\ downloadingPCDs' = (IF syncBranch = "download" THEN TRUE ELSE downloadingPCDs)
  /\ downloadStarts' = (IF syncBranch = "download"
                        THEN Append(downloadStarts, <<downloadedPCDs, downloadingPCDs>>)
                        ELSE downloadStarts)
  /\ loadingIssuedPCDs' = (IF syncBranch = "loadIssued" THEN TRUE ELSE loadingIssuedPCDs)
  /\ syncUploadId' = (IF syncBranch = "getHash"
                      THEN [syncUploadId EXCEPT ![c] = pcds] ELSE syncUploadId)
  /\ UNCHANGED <<serverVars, isZuzalu, encryptionKey, pcds, downloadedPCDs,
                 loadedIssuedPCDs, uploadedUploadId, uploadingUploadId, uploadStarts>>

\* downloadStorage() has returned, with a collection or with null
syncDownload(c) ==
  /\ syncPc[c] = "download"
  /\ syncPc' = [syncPc EXCEPT ![c] = "returned"]
  /\ downloadedPCDs' = TRUE
  /\ downloadingPCDs' = FALSE
  /\ \E found \in BOOLEAN :
       IF found
       THEN pcds' = pcds + 1 /\ uploadedUploadId' = pcds'
       ELSE UNCHANGED <<pcds, uploadedUploadId>>
  /\ UNCHANGED <<serverVars, isZuzalu, encryptionKey, loadedIssuedPCDs, loadingIssuedPCDs,
                 uploadingUploadId, syncUploadId, downloadStarts, uploadStarts>>

\* loadIssuedPCDs has returned or thrown: the folder's contents were replaced
\* by other PCDs, or by the same, or not at all
syncLoadIssued(c) ==
  /\ syncPc[c] = "loadIssued"
  /\ syncPc' = [syncPc EXCEPT ![c] = "returned"]
  /\ loadingIssuedPCDs' = FALSE
  /\ loadedIssuedPCDs' = TRUE
  /\ \E changed \in BOOLEAN : pcds' = (IF changed THEN pcds + 1 ELSE pcds)
  /\ UNCHANGED <<serverVars, isZuzalu, encryptionKey, downloadedPCDs, downloadingPCDs,
                 uploadedUploadId, uploadingUploadId, syncUploadId, downloadStarts,
                 uploadStarts>>

\* state.uploadedUploadId === uploadId || state.uploadingUploadId === uploadId
uploadNoOp(uploaded, uploading, uploadId) == uploaded = uploadId \/ uploading = uploadId

\* state.pcds.getHash() has returned: sync returns, or starts the upload
syncGetHash(c) ==
  /\ syncPc[c] = "getHash"
  /\ IF uploadNoOp(uploadedUploadId, uploadingUploadId, syncUploadId[c])
     THEN /\ syncPc' = [syncPc EXCEPT ![c] = "returned"]
          /\ UNCHANGED <<uploadingUploadId, uploadStarts>>
     ELSE /\ syncPc' = [syncPc EXCEPT ![c] = "upload"]
          /\ uploadingUploadId' = syncUploadId[c]
          /\ uploadStarts' = Append(uploadStarts,
                               [uploadId |-> syncUploadId[c],
                                downloaded |-> downloadedPCDs,
                                downloading |-> downloadingPCDs,
                                loadedIssued |-> loadedIssuedPCDs])
  /\ UNCHANGED <<serverVars, isZuzalu, encryptionKey, pcds, downloadedPCDs, downloadingPCDs,
                 loadedIssuedPCDs, loadingIssuedPCDs, uploadedUploadId, syncUploadId,
                 downloadStarts>>

\* uploadStorage() has returned
syncUpload(c) ==
  /\ syncPc[c] = "upload"
  /\ syncPc' = [syncPc EXCEPT ![c] = "returned"]
  /\ uploadingUploadId' = 0
  /\ uploadedUploadId' = syncUploadId[c]
  /\ UNCHANGED <<serverVars, isZuzalu, encryptionKey, pcds, downloadedPCDs, downloadingPCDs,
                 loadedIssuedPCDs, loadingIssuedPCDs, syncUploadId, downloadStarts,
                 uploadStarts>>

InitClient ==
  /\ organizers = [o \in {"A"} |-> <<"e1">>]
  /\ activeItemIDs = [e \in Events |-> <<"1", "2">>]
  /\ pretix = [e \in Events |-> EventData(goodSettings, "E1", itemsBoth, ordersBoth(11, 12))]
  /\ eventsInfo = {} /\ itemsInfo = {} /\ tickets = {}
  /\ passesLeft = 0
  /\ faultsLeft = 0
  /\ InitService
  /\ LoopIdle
  /\ CallsIdle
  /\ isZuzalu \in BOOLEAN
  /\ encryptionKey \in BOOLEAN
  /\ ClientFresh

NextClient ==
  \/ genPassport
  \/ addPCDs
  \/ dispatchSync
  \/ \E c \in 1..MaxSyncs : syncLoadKey(c)
  \/ \E c \in 1..MaxSyncs : syncDownload(c)
  \/ \E c \in 1..MaxSyncs : syncLoadIssued(c)
  \/ \E c \in 1..MaxSyncs : syncGetHash(c)
  \/ \E c \in 1..MaxSyncs : syncUpload(c)

SpecClient == InitClient /\ [][NextClient]_vars

\* ============================================================= properties
isEventOp(w) == w.op \in {"insertEvent", "updateEvent"}
isItemOp(w) == w.op \in {"insertItem", "updateItem", "deleteItem"}
isTicketOp(w) == w.op \in {"insertTicket", "updateTicket", "deleteTicket"}

\* the rows of one event in tables d
eventRows(d, e) ==
  [events |-> {r \in d.events : r.pretix_events_config_id = e},
   items |-> {r \in d.items : r.devconnect_pretix_events_info_id = e},
   tickets |-> {r \in d.tickets : r.devconnect_pretix_items_info_id[1] = e}]

\* sync(config) has returned in the current pass
syncReturned == passPc \in {"reload", "idle"} /\ \E o \in Orgs : orgPc[o] # "none"

\* syncOrganizer(o) got the data of all its events and validated it
validated(o) ==
  /\ orgPc[o] \in {"aborted", "syncing", "settled"}
  /\ \A e \in eventsOf(o) : evPc[e] # "fetchFailed"

violations(o) == organizerErrors(orgEvents(o), eventData, activeItemIDs)

\* one of the four calls of fetchEventData(e) failed in this pass
fetchFailed(e) == <<"organizer", orgOf(e), "fetch", e>> \in reports

\* syncEvent(e) ran all its phases to the end or to the first failure
ranToEnd(e) ==
  /\ evPc[e] = "done"
  /\ phaseResult[e].eventInfo # "none"
  /\ phaseResult[e].eventInfo = "ok" => phaseResult[e].itemInfo # "none"
  /\ phaseResult[e].itemInfo = "ok" => phaseResult[e].tickets # "none"

\* the fetched data of e lacks an allow-listed item
drift(e) ==
  Range(activeItemIDs[e]) \ {toString(i.id) : i \in Range(eventData[e].items)} # {}

\* C1: no syncOrganizer task rejects, and when sync() has returned, every
\* organizer that was not itself aborted has had the syncEvent of each of its
\* events run to the end, whatever happened in the task of another organizer.
C1_OrganizerIsolation ==
  /\ \A o \in Orgs : orgPc[o] # "rejected"
  /\ syncReturned =>
       \A b \in ConfiguredOrgs :
         orgPc[b] # "aborted" => \A e \in eventsOf(b) : ranToEnd(e)

C1_Witness ==
  /\ passPc = "idle"
  /\ orgPc["A"] = "aborted" /\ orgPc["B"] = "settled"
  /\ \E r \in reports : r[1] = "organizer" /\ r[2] = "A" /\ r[3] = "validation"
  /\ \E t \in tickets : t.position_id = "31" /\ ~t.is_deleted
  /\ allPhasesOk(phaseResult["e3"])

\* C2: when the validation of an organizer found a violation in any of its
\* events, no row write is issued for any event of the organizer in the pass
\* and the rows of all its events are as they were at the start of the pass.
C2_ValidationFailClosed ==
  \A o \in ConfiguredOrgs :
    (validated(o) /\ Len(violations(o)) > 0) =>
      \A e \in eventsOf(o) :
        /\ writeLog[e] = <<>>
        /\ phaseResult[e] = noPhase
        /\ eventRows(db, e) = eventRows(dbAtPassStart, e)

C2_Witness ==
  /\ passPc = "idle"
  /\ validated("A")
  /\ Len(checkEventData(eventData["e1"], eventConfig("e1"))) > 0
  /\ Len(checkEventData(eventData["e2"], eventConfig("e2"))) = 0
  /\ eventRows(db, "e2").tickets # {}
  /\ writeLog["e3"] # <<>>

C4_FetchFailureLeavesRows ==
  \A e \in ConfiguredEvents :
    fetchFailed(e) => eventRows(db, e) = eventRows(dbAtPassStart, e)

C4_Witness ==
  /\ passPc = "idle"
  /\ fetchFailed("e1")
  /\ eventRows(db, "e1").tickets # {}
  /\ eventRows(db, "e1").items # {}
  /\ pretix["e1"].eventInfo.name.en # fetchPretixEventInfo(eventsInfo, "e1").event_name

\* C5: an ItemInfo write of a syncEvent run is issued only after its event-info
\* phase returned success, a Ticket write only after its item-info phase did.
C5_PhaseOrder ==
  \A e \in Events :
    \A k \in 1..Len(writeLog[e]) :
      /\ isItemOp(writeLog[e][k]) =>
           /\ phaseResult[e].eventInfo = "ok"
           /\ \E j \in 1..(k-1) : isEventOp(writeLog[e][j])
      /\ isTicketOp(writeLog[e][k]) =>
           /\ phaseResult[e].eventInfo = "ok" /\ phaseResult[e].itemInfo = "ok"
           /\ \A j \in (k+1)..Len(writeLog[e]) : isTicketOp(writeLog[e][j])

C5_Witness ==
  /\ evPc["e1"] = "done"
  /\ \E k \in 1..Len(writeLog["e1"]) : isItemOp(writeLog["e1"][k])
  /\ \E k \in 1..Len(writeLog["e1"]) : isTicketOp(writeLog["e1"][k])
  /\ dbAtPassStart.events # {}

\* C6: a failed phase ends its syncEvent run: no later phase runs or writes;
\* the rows written by the phases that succeeded stay; and when the organizer
\* has settled every sibling event has run its own phases to the end.
C6_PhaseFailureIsolated ==
  \A e \in ConfiguredEvents :
    /\ phaseResult[e].eventInfo = "fail" =>
         /\ phaseResult[e].itemInfo = "none" /\ phaseResult[e].tickets = "none"
         /\ \A k \in 1..Len(writeLog[e]) : isEventOp(writeLog[e][k])
    /\ phaseResult[e].itemInfo = "fail" =>
         /\ phaseResult[e].tickets = "none"
         /\ \A k \in 1..Len(writeLog[e]) : ~isTicketOp(writeLog[e][k])
         /\ \E r \in eventsInfo : /\ r.pretix_events_config_id = e
                                  /\ r.event_name = eventData[e].eventInfo.name.en
    /\ phaseResult[e].tickets = "fail" =>
         \A k \in 1..Len(activeItemIDs[e]) :
           \E r \in itemsInfo :
             /\ r.id = <<e, activeItemIDs[e][k]>> /\ ~r.is_deleted
             /\ \E i \in Range(eventData[e].items) :
                  toString(i.id) = r.item_id /\ getI18nString(i.name) = r.item_name
    /\ (~allPhasesOk(phaseResult[e]) /\ evPc[e] = "done"
        /\ orgPc[orgOf(e)] = "settled") =>
         \A e2 \in eventsOf(orgOf(e)) : ranToEnd(e2)

C6_Witness ==
  /\ passPc = "idle"
  /\ orgPc["A"] = "settled"
  /\ phaseResult["e1"].itemInfo = "fail"
  /\ \E k \in 1..Len(writeLog["e1"]) : writeLog["e1"][k].op = "insertItem"
  /\ allPhasesOk(phaseResult["e2"])
  /\ \E t \in tickets : t.position_id = "21" /\ ~t.is_deleted

\* C7: when an allow-listed item id is absent from the fetched items, the
\* item-info phase issues no ItemInfo write, reports an error and fails, and
\* the ticket phase does not run: the ItemInfo and Ticket rows are untouched.
C7_DriftFailClosed ==
  \A e \in ConfiguredEvents :
    (phaseResult[e].itemInfo # "none" /\ drift(e)) =>
      /\ phaseResult[e].itemInfo = "fail"
      /\ <<"itemInfo", e, "drift">> \in reports
      /\ phaseResult[e].tickets = "none"
      /\ \A k \in 1..Len(writeLog[e]) : isEventOp(writeLog[e][k])
      /\ eventRows(db, e).items = eventRows(dbAtPassStart, e).items
      /\ eventRows(db, e).tickets = eventRows(dbAtPassStart, e).tickets

C7_Witness ==
  /\ evPc["e1"] = "done"
  /\ drift("e1")
  /\ phaseResult["e1"].itemInfo = "fail"
  /\ eventRows(db, "e1").items # {}
  /\ \E i \in Range(eventData["e1"].items) : toString(i.id) \in Range(activeItemIDs["e1"])

\* C8 as stated: in a pass whose fetch lacks an allow-listed item id, no row
\* of the event is written at all, the EventInfo row included.
C8_Original ==
  \A e \in ConfiguredEvents :
    (evPc[e] = "done" /\ drift(e)) => writeLog[e] = <<>>

\* C8 amended: in a pass whose fetch lacks an allow-listed item id, no ItemInfo
\* and no Ticket row of the event is written, but the event-info phase runs
\* before the check: when it succeeds it has written the EventInfo row, which
\* then carries the fetched event name.
C8_DriftAbortsAfterEventInfo ==
  \A e \in ConfiguredEvents :
    (evPc[e] = "done" /\ drift(e)) =>
      /\ \A k \in 1..Len(writeLog[e]) : isEventOp(writeLog[e][k])
      /\ phaseResult[e].eventInfo = "ok" =>
           /\ Len(writeLog[e]) = 1
           /\ \E r \in eventsInfo : /\ r.pretix_events_config_id = e
                                    /\ r.event_name = eventData[e].eventInfo.name.en

C8_Witness ==
  /\ evPc["e1"] = "done"
  /\ drift("e1")
  /\ phaseResult["e1"].eventInfo = "ok"
  /\ writeLog["e1"][1].op = "insertEvent"
  /\ eventRows(dbAtPassStart, "e1").events = {}
  /\ eventRows(db, "e1").events # {}

\* the syncEvent run of e in this pass repeats the successful run of the
\* previous pass: same fetched data, same allow-list
repeatedRun(e) ==
  /\ prevRun[e].ok
  /\ phaseResult[e].eventInfo # "none"
  /\ prevRun[e].data = eventData[e]
  /\ prevRun[e].active = activeItemIDs[e]

\* C9 as stated: the second of two syncEvent runs on unchanged data issues no
\* insert, update or soft-delete at all.
C9_Original ==
  \A e \in ConfiguredEvents :
    (repeatedRun(e) /\ evPc[e] = "done") => writeLog[e] = <<>>

\* C9 amended: the second of two syncEvent runs on unchanged data, the first of
\* which succeeded in all three phases, issues no ItemInfo and no Ticket write
\* and changes no row; the only write it issues is the update of the EventInfo
\* row, which rewrites the name the row already has.
C9_Idempotence ==
  \A e \in ConfiguredEvents :
    repeatedRun(e) =>
      /\ \A k \in 1..Len(writeLog[e]) : writeLog[e][k].op = "updateEvent"
      /\ Len(writeLog[e]) <= 1
      /\ eventRows(db, e) = eventRows(dbAtPassStart, e)

C9_Witness ==
  /\ repeatedRun("e1")
  /\ allPhasesOk(phaseResult["e1"])
  /\ evPc["e1"] = "done"
  /\ Len(writeLog["e1"]) = 1
  /\ \E t \in tickets : ~t.is_deleted
  /\ \E t \in tickets : t.is_deleted
  /\ \E r \in itemsInfo : r.is_deleted

\* C10: the store never holds two Ticket rows of one position id; and after a
\* ticket phase that returned success, a position whose row was soft-deleted
\* at the start of the pass and that the fetch holds again (paid order, active
\* item) has that one row active with the fields of this fetch.
C10_TicketReactivation ==
  /\ \A t1, t2 \in tickets : t1.position_id = t2.position_id => t1 = t2
  /\ \A e \in ConfiguredEvents :
       phaseResult[e].tickets = "ok" =>
         LET converted ==
               ordersToDevconnectTickets(eventData[e].tickets,
                                         fetchPretixItemsInfoByEvent(itemsInfo, e))
         IN  \A k \in 1..Len(converted) :
               \A r0 \in dbAtPassStart.tickets :
                 (r0.position_id = converted[k].position_id /\ r0.is_deleted) =>
                   \E r \in tickets :
                     /\ r.position_id = r0.position_id
                     /\ ~r.is_deleted
                     /\ r.email = converted[k].email
                     /\ r.full_name = converted[k].full_name
                     /\ r.devconnect_pretix_items_info_id
                          = converted[k].devconnect_pretix_items_info_id
                     /\ r.is_consumed = r0.is_consumed

C10_Witness ==
  /\ phaseResult["e1"].tickets = "ok"
  /\ \E r0 \in dbAtPassStart.tickets, r \in tickets :
       /\ r0.position_id = r.position_id
       /\ r0.is_deleted /\ ~r.is_deleted
       /\ r0.full_name # r.full_name
       /\ r0.email # r.email

\* C11: the store never holds two ItemInfo rows of one (event, provider item
\* id), and after an item-info phase that succeeded every allow-listed item id
\* of the event has an active row carrying the fetched name, a row that was
\* soft-deleted before the pass included.
C11_ItemReactivation ==
  /\ \A r1, r2 \in itemsInfo :
       (r1.devconnect_pretix_events_info_id = r2.devconnect_pretix_events_info_id
          /\ r1.item_id = r2.item_id) => r1 = r2
  /\ \A e \in ConfiguredEvents :
       phaseResult[e].itemInfo = "ok" =>
         \A i \in Range(eventData[e].items) :
           toString(i.id) \in Range(activeItemIDs[e]) =>
             \E r \in itemsInfo :
               /\ r.devconnect_pretix_events_info_id = e
               /\ r.item_id = toString(i.id)
               /\ r.item_name = getI18nString(i.name)
               /\ ~r.is_deleted

\* item 2 was soft-deleted when the pass began and is active again, its name
\* unchanged
C11_Witness ==
  /\ phaseResult["e1"].itemInfo = "ok"
  /\ "2" \in Range(activeItemIDs["e1"])
  /\ \E r0 \in dbAtPassStart.items, r \in itemsInfo :
       /\ r0.item_id = "2" /\ r0.is_deleted
       /\ r.id = r0.id /\ ~r.is_deleted /\ r.item_name = r0.item_name

\* C12: every ticket row that existed when the pass began still exists and
\* has the consumed value it had then, whatever insert, update or soft-delete
\* the ticket phase has applied to it.
C12_ConsumedUntouched ==
  \A t0 \in dbAtPassStart.tickets :
    \E t \in tickets :
      /\ t.position_id = t0.position_id
      /\ t.is_consumed = t0.is_consumed

\* the ticket phase has updated or re-inserted a consumed ticket
C12_Witness ==
  /\ phaseResult["e1"].tickets = "ok"
  /\ \E t0 \in dbAtPassStart.tickets :
       /\ t0.is_consumed
       /\ \E k \in 1..Len(writeLog["e1"]) :
            /\ writeLog["e1"][k].op \in {"insertTicket", "updateTicket"}
            /\ writeLog["e1"][k].ticket.position_id = t0.position_id
            /\ ~writeLog["e1"][k].ticket.is_consumed

\* the active ItemInfo rows of event e for provider item id k
activeItemRows(e, k) ==
  {r \in itemsInfo : /\ r.devconnect_pretix_events_info_id = e
                      /\ r.item_id = k
                      /\ ~r.is_deleted}

\* the ticket writes of kind ops issued for event e in the pass
ticketWritesIn(e, ops) ==
  {writeLog[e][k].ticket : k \in {j \in 1..Len(writeLog[e]) : writeLog[e][j].op \in ops}}

\* C13: every ticket the ticket phase inserted or updated references an active
\* ItemInfo row of the same event, and a fetched position whose item id has no
\* active ItemInfo row gets no ticket write and does not fail the phase (the
\* phase fails on a store error only).
C13_TicketOwnerActive ==
  \A e \in ConfiguredEvents :
    /\ \A t \in ticketWritesIn(e, {"insertTicket", "updateTicket"}) :
         \E r \in itemsInfo :
           /\ r.id = t.devconnect_pretix_items_info_id
           /\ r.devconnect_pretix_events_info_id = e
           /\ ~r.is_deleted
    /\ phaseResult[e].tickets # "none" =>
         \A o \in Range(eventData[e].tickets) :
           \A p \in Range(o.positions) :
             activeItemRows(e, toString(p.item)) = {} =>
               /\ \A t \in ticketWritesIn(e, {"insertTicket", "updateTicket"}) :
                    t.position_id # toString(p.id)
               /\ phaseResult[e].tickets = "fail" => <<"tickets", e, "store">> \in reports

\* the ticket phase succeeded on a fetch that holds a paid position of an item
\* without active ItemInfo row, and inserted the ticket of another position
C13_Witness ==
  /\ phaseResult["e1"].tickets = "ok"
  /\ ticketWritesIn("e1", {"insertTicket"}) # {}
  /\ \E o \in Range(eventData["e1"].tickets) :
       /\ o.status = "p"
       /\ \E p \in Range(o.positions) : activeItemRows("e1", toString(p.item)) = {}

\* the positions of a list of orders, as <<order, position>> pairs
orderPositions(orders) ==
  UNION {{<<orders[i], orders[i].positions[j]>> : j \in 1..Len(orders[i].positions)}
           : i \in 1..Len(orders)}

\* the pairs that are due a ticket: paid order, item id in the ItemInfo list
duePositions(orders, rows) ==
  {op \in orderPositions(orders) :
     /\ op[1].status = "p"
     /\ \E r \in Range(rows) : r.item_id = toString(op[2].item)}

\* C14: ordersToDevconnectTickets returns no ticket for a position of an order
\* whose status is not paid, and returns exactly one ticket per position of a
\* paid order whose item id is in the given ItemInfo list, and no other.
C14_NonPaidExclusion ==
  convPc = "returned" =>
    /\ \A op \in orderPositions(convOrders) :
         op[1].status # "p" =>
           \A k \in 1..Len(convTickets) : convTickets[k].position_id # toString(op[2].id)
    /\ Len(convTickets) = Cardinality(duePositions(convOrders, convItemsInfo))
    /\ \A op \in duePositions(convOrders, convItemsInfo) :
         \E k \in 1..Len(convTickets) : convTickets[k].position_id = toString(op[2].id)

\* a non-paid order with a position of a listed item next to a paid order that
\* yields tickets
C14_Witness ==
  /\ convPc = "returned"
  /\ convTickets # <<>>
  /\ \E op \in orderPositions(convOrders) :
       /\ op[1].status # "p"
       /\ \E r \in Range(convItemsInfo) : r.item_id = toString(op[2].item)

\* C16: every ticket ordersToDevconnectTickets returns has the lowercased
\* attendee email of its position when that is present and not empty, and the
\* lowercased email of the order otherwise; the call returns for every input.
C16_EmailDerivation ==
  convPc = "returned" =>
    \A op \in duePositions(convOrders, convItemsInfo) :
      \E k \in 1..Len(convTickets) :
        /\ convTickets[k].position_id = toString(op[2].id)
        /\ convTickets[k].email =
             (IF op[2].attendee_email = "A@X.com" THEN "a@x.com" ELSE "buyer@y.org")

\* one ticket took the attendee's email, another fell back to the order's
C16_Witness ==
  /\ convPc = "returned"
  /\ \E op \in duePositions(convOrders, convItemsInfo) : op[2].attendee_email = Null
  /\ \E op \in duePositions(convOrders, convItemsInfo) : op[2].attendee_email = ""
  /\ \E k \in 1..Len(convTickets) : convTickets[k].email = "a@x.com"
  /\ \E k \in 1..Len(convTickets) : convTickets[k].email = "buyer@y.org"

\* the fetched positions of event e that sit in an order that is not paid
nonPaidPositionIds(e) ==
  {toString(op[2].id) : op \in {x \in orderPositions(eventData[e].tickets) : x[1].status # "p"}}

\* C15 as stated: the ticket phase soft-deletes no ticket whose position sits
\* in a fetched order that is not paid.
C15_Original ==
  \A e \in ConfiguredEvents :
    \A t \in ticketWritesIn(e, {"deleteTicket"}) : t.position_id \notin nonPaidPositionIds(e)

\* C15 amended: a position of a fetched order that is not paid is never
\* inserted or updated, and it counts as absent from the fetch: once the ticket
\* phase has succeeded, every ticket row of the event stored for such a
\* position is soft-deleted.
C15_NonPaidCountsAsAbsent ==
  \A e \in ConfiguredEvents :
    /\ \A t \in ticketWritesIn(e, {"insertTicket", "updateTicket"}) :
         t.position_id \notin nonPaidPositionIds(e)
    /\ phaseResult[e].tickets = "ok" =>
         \A t \in tickets :
           (t.devconnect_pretix_items_info_id[1] = e
              /\ t.position_id \in nonPaidPositionIds(e)) => t.is_deleted

\* the order of an active ticket is fetched as not paid and the ticket phase
\* soft-deletes the ticket
C15_Witness ==
  /\ phaseResult["e1"].tickets = "ok"
  /\ \E t0 \in dbAtPassStart.tickets :
       /\ ~t0.is_deleted
       /\ t0.position_id \in nonPaidPositionIds("e1")
       /\ \E t \in ticketWritesIn("e1", {"deleteTicket"}) : t.position_id = t0.position_id

\* C17 as stated: at most one trySync call of the loop is in flight.
C17_Original == Cardinality(inFlight) <= 1

\* C18 as stated: after stop() was called between two passes, no pass is in
\* flight until startSyncLoop or replaceApi is called.
C18_Original == stoppedWaiting => inFlight = {}

\* C19: a replaceApi step leaves hasCompletedSyncSinceStarting false and a loop
\* that was running (a call in flight or a timer pending) running, and every
\* provider fetch is started on the client that this.pretixAPI holds at that
\* moment, the replacement once replaceApi has returned.
C19_ReplaceApi ==
  [][/\ pretixAPI' # pretixAPI =>
          /\ ~hasCompletedSyncSinceStarting'
          /\ loopRunning => loopRunning'
     /\ fetchLog' \ fetchLog \subseteq {<<p, pretixAPI'>> : p \in 1..MaxLoopPasses}]_vars

\* replaceApi was called in the middle of a pass: the pass sent one fetch to
\* the old client and the next to the new one, and a pass is in flight
C19_Witness ==
  /\ pretixAPI = 1
  /\ ~hasCompletedSyncSinceStarting
  /\ inFlight # {}
  /\ \E p \in 1..MaxLoopPasses : <<p, 0>> \in fetchLog /\ <<p, 1>> \in fetchLog
  /\ \E t \in 1..MaxLoopPasses : timers[t] = "cleared"

\* the current pass met no failure: no organizer aborted, no event fetch
\* failed, no phase failed
passClean ==
  /\ \A o \in ConfiguredOrgs : orgPc[o] # "aborted"
  /\ \A e \in ConfiguredEvents :
       /\ evPc[e] # "fetchFailed"
       /\ phaseResult[e].eventInfo # "fail"
       /\ phaseResult[e].itemInfo # "fail"
       /\ phaseResult[e].tickets # "fail"

\* C20 as stated, for the first pass of the process: when
\* hasCompletedSyncSinceStarting is true and only one pass was started, that
\* pass met no failure.
C20_Original ==
  (hasCompletedSyncSinceStarting /\ passesLeft = MaxPasses - 1) => passClean

\* no organizer task and no syncEvent is still running
allTasksSettled ==
  /\ \A o \in ConfiguredOrgs : orgPc[o] \in {"aborted", "settled"}
  /\ \A e \in ConfiguredEvents : evPc[e] \in {"fetchFailed", "dropped", "done"}

\* C21: a pass goes from the configuration load to sync(config), leaves
\* sync(config) for the group reload only when every organizer task and every
\* syncEvent has settled, writes rows only inside sync(config), and the flag
\* is set only by the step in which the group reload returned; a step that
\* reports a failed configuration load or a failed reload leaves the flag.
C21_PassOrder ==
  [][/\ (passPc' = "sync" /\ passPc # "sync") => passPc = "loadConfig"
     /\ (passPc' = "reload" /\ passPc # "reload") => (passPc = "sync" /\ allTasksSettled)
     /\ writeLog' # writeLog => (passPc = "sync" \/ passPc' = "loadConfig")
     /\ hasCompletedSyncSinceStarting' # hasCompletedSyncSinceStarting =>
          /\ passPc = "reload" /\ passPc' = "idle"
          /\ hasCompletedSyncSinceStarting'
          /\ reports' = reports
     /\ (<<"pass", "config">> \in reports' \ reports
           \/ <<"pass", "reload">> \in reports' \ reports) =>
          UNCHANGED hasCompletedSyncSinceStarting]_vars

\* a pass set the flag after both organizers had synced their events
C21_Witness ==
  /\ hasCompletedSyncSinceStarting
  /\ passPc = "idle"
  /\ orgPc["A"] = "settled" /\ orgPc["B"] = "settled"
  /\ writeLog["e1"] # <<>> /\ writeLog["e3"] # <<>>

\* C22: trySync never fails towards its caller: whatever fails during a pass
\* (the configuration load, a fetch, validation, a store write, the reload)
\* is reported and swallowed, the pass returns normally, and the loop's
\* closure then arms the timer for the next pass.
C22_TrySyncResolves ==
  [][/\ passPc' # "rejected"
     /\ \A e \in ConfiguredEvents :
          /\ (evPc'[e] = "fetchFailed" /\ evPc[e] # "fetchFailed") =>
                <<"organizer", orgOf(e), "fetch", e>> \in reports'
          /\ \A ph \in {"eventInfo", "itemInfo", "tickets"} :
               (phaseResult'[e][ph] = "fail" /\ phaseResult[e][ph] # "fail") =>
                 \E tag \in {"store", "no event info", "drift"} : <<ph, e, tag>> \in reports'
     /\ \A o \in ConfiguredOrgs :
          (orgPc'[o] = "aborted" /\ orgPc[o] # "aborted") =>
            \E r \in reports' : r[1] = "organizer" /\ r[2] = o
     /\ (passPc \in {"loadConfig", "reload"} /\ passPc' # passPc /\ passPc' # "sync") =>
          /\ passPc' = "idle"
          /\ timers[passNo] = "unset"
          /\ timers'[passNo] = "pending"
          /\ timeout' = passNo]_vars

\* a pass in which a fetch, a store write and the reload failed has returned
\* and the timer for the next pass is pending
C22_Witness ==
  /\ passPc = "idle"
  /\ <<"pass", "reload">> \in reports
  /\ \E e \in ConfiguredEvents : evPc[e] = "fetchFailed"
  /\ \E e \in ConfiguredEvents : phaseResult[e].tickets = "fail"
  /\ \E t \in DOMAIN timers : timers[t] = "pending"

\* C23: when the configuration load fails or returns nothing, the pass makes
\* no provider fetch, no store write and no group reload, and the flag
\* hasCompletedSyncSinceStarting keeps the value it had.
C23_ConfigFailure ==
  [][/\ (<<"pass", "config">> \in reports' \ reports) =>
          /\ passPc = "loadConfig" /\ passPc' = "idle"
          /\ \A e \in Events : evPc'[e] = "none" /\ eventData'[e] = noData /\ writeLog'[e] = <<>>
          /\ \A o \in Orgs : orgPc'[o] = "none"
          /\ <<"pass", "reload">> \notin reports'
          /\ db' = dbAtPassStart'
          /\ UNCHANGED <<storeVars, hasCompletedSyncSinceStarting>>
     /\ (<<"pass", "config">> \in reports' \cap reports) =>
          /\ passPc' = "idle"
          /\ UNCHANGED <<evPc, orgPc, eventData, writeLog, reports, hasCompletedSyncSinceStarting>>]_vars

\* the configuration load failed in a pass that started with the flag set
\* and a filled store
C23_Witness ==
  /\ <<"pass", "config">> \in reports
  /\ passPc = "idle"
  /\ tickets # {}
  /\ hasCompletedSyncSinceStarting

\* validateEventSettings and validateEventItem as the claim words them
settingsAsRequired(settings) ==
  settings.attendee_emails_asked = TRUE /\ settings.attendee_emails_required = TRUE

itemAsRequired(item) ==
  /\ item.admission = TRUE
  /\ item.personalized = TRUE
  /\ item.generate_tickets \in {"null", "undefined", "false"}

\* C24: checkEventData returns an empty list exactly when both email
\* settings are true and every fetched item whose id is in activeItemIDs is
\* an admission, personalized item with generate_tickets null, unset or false;
\* no violation is ever about a fetched item outside activeItemIDs.
C24_CheckEventData ==
  checkPc = "returned" =>
    LET data == pretix["e1"]
        active == Range(activeItemIDs["e1"])
    IN  /\ checkErrors = <<>> <=>
              /\ settingsAsRequired(data.settings)
              /\ \A i \in DOMAIN data.items :
                   toString(data.items[i].id) \in active => itemAsRequired(data.items[i])
        /\ \A k \in DOMAIN checkErrors :
             checkErrors[k].item = 0 \/ toString(checkErrors[k].item) \in active

\* the check passed although a fetched item outside the allow-list is no
\* admission item, and an allow-listed item has generate_tickets false
C24_Witness ==
  /\ checkPc = "returned"
  /\ checkErrors = <<>>
  /\ \E i \in DOMAIN pretix["e1"].items :
       /\ toString(pretix["e1"].items[i].id) \notin Range(activeItemIDs["e1"])
       /\ ~pretix["e1"].items[i].admission
  /\ \E i \in DOMAIN pretix["e1"].items :
       /\ toString(pretix["e1"].items[i].id) \in Range(activeItemIDs["e1"])
       /\ pretix["e1"].items[i].generate_tickets = "false"

\* C25: within one organizer task no store write is issued for any event
\* before the fetches of all events of that organizer have completed and the
\* data of every one of them has passed validation.
C25_WritesAfterFetchAndValidation ==
  [][\A e \in ConfiguredEvents :
       writeLog'[e] # writeLog[e] /\ writeLog'[e] # <<>> =>
         /\ orgPc[orgOf(e)] = "syncing"
         /\ \A e2 \in eventsOf(orgOf(e)) :
              /\ evPc[e2] \in {"eventInfo", "itemInfo", "tickets", "done"}
              /\ eventData[e2] = pretix[e2]
              /\ Len(checkEventData(eventData[e2], eventConfig(e2))) = 0]_vars

\* rows of e1 were written while its sibling e2 is fetched, valid and not yet
\* written, and the other organizer is still fetching
C25_Witness ==
  /\ writeLog["e1"] # <<>>
  /\ writeLog["e2"] = <<>>
  /\ evPc["e2"] = "eventInfo"
  /\ orgPc["A"] = "syncing"
  /\ evPc["e3"] = "fetching"

\* the active Ticket rows of event e
activeTickets(e) ==
  {t \in tickets : ~t.is_deleted /\ t.devconnect_pretix_items_info_id[1] = e}

\* the store matches the provider for event e
storeMatchesProvider(e) ==
  /\ \A k \in Range(activeItemIDs[e]) :
       \E i \in DOMAIN pretix[e].items :
         /\ toString(pretix[e].items[i].id) = k
         /\ \E r \in activeItemRows(e, k) : r.item_name = getI18nString(pretix[e].items[i].name)
  /\ {t.position_id : t \in activeTickets(e)}
       = {toString(op[2].id) :
            op \in {x \in orderPositions(pretix[e].tickets) :
                      /\ x[1].status = "p"
                      /\ toString(x[2].item) \in Range(activeItemIDs[e])}}

\* no fetch and no store call has failed in the pass
noCallFailed == reports \subseteq {<<"pass", "reload">>}

\* C26: retry converges: with the loop running, configuration and provider
\* data fixed and valid, if from some pass on no fetch and no store call
\* fails, then eventually the store matches the provider for every event (an
\* active ItemInfo with the fetched name for each allow-listed item, active
\* Ticket rows exactly for the positions of paid orders on those items).
C26_RetryConverges ==
  (<>[]noCallFailed) => <>[](\A e \in ConfiguredEvents : storeMatchesProvider(e))

\* the store matches the provider at the end of a second pass that began on a
\* store the first, failed pass had left differing from the provider
C26_Witness ==
  /\ passPc = "idle"
  /\ passesLeft = 0
  /\ noCallFailed
  /\ dbAtPassStart # db
  /\ dbAtPassStart # noRows
  /\ faultsLeft = 0
  /\ \A e \in ConfiguredEvents : storeMatchesProvider(e)

\* the EventInfo rows of event config e in table tbl
eventInfoRows(tbl, e) == {r \in tbl : r.pretix_events_config_id = e}

\* C27: at most one EventInfo row exists per EventConfig id; no step deletes
\* or soft-deletes an EventInfo row; an event-info phase that succeeds has
\* inserted the row when there was none, and has otherwise rewritten the name
\* of the existing row in place, the row then carrying the fetched name.
C27_OneEventInfo ==
  [][/\ \A e \in Events : Cardinality(eventInfoRows(eventsInfo', e)) <= 1
     /\ \A r \in eventsInfo :
          \E r2 \in eventsInfo' :
            /\ r2.id = r.id
            /\ r2.pretix_events_config_id = r.pretix_events_config_id
            /\ ~r2.is_deleted
     /\ \A e \in ConfiguredEvents :
          (phaseResult'[e].eventInfo = "ok" /\ phaseResult[e].eventInfo # "ok") =>
            \E r2 \in eventInfoRows(eventsInfo', e) :
              /\ r2.event_name = eventData[e].eventInfo.name.en
              /\ \A r \in eventInfoRows(eventsInfo, e) : r.id = r2.id
              /\ eventsInfo' \ {r2} = eventsInfo \ eventInfoRows(eventsInfo, e)]_vars

\* the event-info phase has renamed the row an earlier pass inserted
C27_Witness ==
  /\ phaseResult["e1"].eventInfo = "ok"
  /\ writeLog["e1"] # <<>>
  /\ writeLog["e1"][1].op = "updateEvent"
  /\ \E r \in eventInfoRows(dbAtPassStart.events, "e1") :
       r.event_name # eventData["e1"].eventInfo.name.en
  /\ \E r \in eventInfoRows(eventsInfo, "e1") :
       r.event_name = eventData["e1"].eventInfo.name.en

\* C28: after an item-info phase that succeeded, every id in activeItemIDs
\* has an active ItemInfo row of the event carrying the fetched name, and every
\* ItemInfo row of the event whose item id is not in activeItemIDs is
\* soft-deleted.
C28_ItemInfoPhase ==
  \A e \in ConfiguredEvents :
    phaseResult[e].itemInfo = "ok" =>
      /\ \A k \in Range(activeItemIDs[e]) :
           \E i \in Range(eventData[e].items), r \in activeItemRows(e, k) :
             toString(i.id) = k /\ r.item_name = getI18nString(i.name)
      /\ \A r \in itemsInfo :
           (r.devconnect_pretix_events_info_id = e /\ r.item_id \notin Range(activeItemIDs[e]))
             => r.is_deleted

\* item 2 left the allow-list: its row, active when the pass began, is
\* soft-deleted, while item 1 has been renamed
C28_Witness ==
  /\ phaseResult["e1"].itemInfo = "ok"
  /\ activeItemIDs["e1"] = <<"1">>
  /\ \E r0 \in dbAtPassStart.items, r \in itemsInfo :
       /\ r0.item_id = "2" /\ ~r0.is_deleted
       /\ r.id = r0.id /\ r.is_deleted
  /\ \E r0 \in dbAtPassStart.items, r \in itemsInfo :
       /\ r0.item_id = "1" /\ r.id = r0.id /\ r.item_name # r0.item_name

\* what the conversion decides of a ticket: position, email, name, owning item
ticketFacts(t) ==
  <<t.position_id, t.email, t.full_name, t.devconnect_pretix_items_info_id>>

\* the tickets the conversion yields for event e from the fetched orders and
\* the active ItemInfo rows
convertedTickets(e) ==
  Range(ordersToDevconnectTickets(eventData[e].tickets,
                                  fetchPretixItemsInfoByEvent(itemsInfo, e)))

\* C29: after a ticket phase that succeeded, the active Ticket rows of the
\* event are exactly the converted tickets, each with the email, name and
\* owning item the conversion gave it, and every stored ticket of the event
\* whose position id is absent from the converted set is soft-deleted.
C29_TicketPhase ==
  \A e \in ConfiguredEvents :
    phaseResult[e].tickets = "ok" =>
      /\ {ticketFacts(t) : t \in activeTickets(e)} = {ticketFacts(t) : t \in convertedTickets(e)}
      /\ \A t \in tickets :
           ( /\ t.devconnect_pretix_items_info_id[1] = e
             /\ t.position_id \notin {c.position_id : c \in convertedTickets(e)} )
           => t.is_deleted

\* of two tickets active when the pass began, the ticket phase has rewritten
\* one and soft-deleted the other
C29_Witness ==
  /\ phaseResult["e1"].tickets = "ok"
  /\ \E t0 \in dbAtPassStart.tickets, t \in tickets :
       /\ ~t0.is_deleted /\ ~t.is_deleted
       /\ t.position_id = t0.position_id
       /\ t.full_name # t0.full_name /\ t.email # t0.email
  /\ \E t0 \in dbAtPassStart.tickets, t \in tickets :
       /\ ~t0.is_deleted /\ t.is_deleted
       /\ t.position_id = t0.position_id

\* the row writes phase ph of event e is about to issue, in order
phasePlan(e, ph) ==
  IF ph = "itemInfo"
  THEN itemInfoWrites(itemsInfo, e, activeItemIDs[e], eventData[e].items)
  ELSE ticketWrites(tickets, itemsInfo, eventsInfo, e, e, eventData[e].tickets)

\* C30: when a store write fails for one row inside the item-info or the
\* ticket phase, the phase returns failure, the failing row and the rows
\* after it are not written, no later phase of the event runs in the pass,
\* and the rows the phase wrote before stay written.
C30_StoreWriteFailure ==
  [][\A e \in ConfiguredEvents : \A ph \in {"itemInfo", "tickets"} :
       /\ (<<ph, e, "store">> \in reports' \ reports) =>
            LET plan == phasePlan(e, ph)
                issued == SubSeq(writeLog'[e], Len(writeLog[e]) + 1, Len(writeLog'[e]))
            IN  /\ phaseResult'[e][ph] = "fail"
                /\ evPc'[e] = "done"
                /\ Len(issued) <= Len(plan)
                /\ plan # <<>> => Len(issued) < Len(plan)
                /\ issued = SubSeq(plan, 1, Len(issued))
                /\ db' = applyWrites(db, plan, Len(issued))
       /\ (<<ph, e, "store">> \in reports /\ passPc' # "loadConfig") =>
            /\ writeLog'[e] = writeLog[e]
            /\ phaseResult'[e] = phaseResult[e]
            /\ eventRows(db', e) = eventRows(db, e)]_vars

\* the ticket phase failed on its second row: the first ticket is in the
\* store and the run of the event is over
C30_Witness ==
  /\ <<"tickets", "e1", "store">> \in reports
  /\ evPc["e1"] = "done"
  /\ \E k \in 1..Len(writeLog["e1"]) : writeLog["e1"][k].op = "insertTicket"
  /\ \E t \in tickets : t \notin dbAtPassStart.tickets
  /\ \E c \in convertedTickets("e1") :
       \A t \in tickets : t.position_id # c.position_id

\* C31: the loop arms the timer for the next pass only after the current
\* pass has settled: a call in flight has set no timer, and a call is started
\* only by startSyncLoop, by replaceApi, or by a timer whose own call has
\* returned; so a call whose fetch never returns is followed by no pass.
C31_TimerAfterPass ==
  [][/\ \A p \in inFlight' : timers'[p] = "unset"
     /\ \A q \in 1..MaxLoopPasses :
          (loopPc[q] = "none" /\ loopPc'[q] # "none") =>
            \/ ~loopRunning
            \/ pretixAPI' # pretixAPI
            \/ \E t \in 1..MaxLoopPasses :
                 /\ timers[t] = "pending" /\ timers'[t] = "fired"
                 /\ loopPc[t] = "returned"]_vars

\* the second pass, started by the timer of the first, waits for a fetch:
\* no timer is armed and no other call is in flight
C31_Witness ==
  /\ loopPc[1] = "returned"
  /\ timers[1] = "fired"
  /\ loopPc[2] = "fetch2"
  /\ inFlight = {2}
  /\ pendingTimers = {}
  /\ pretixAPI = 0

\* the validation errors reported for organizer o in the pass
validationReports(o) ==
  {r \in reports : r[1] = "organizer" /\ r[2] = o /\ r[3] = "validation"}

\* C32: the violations of all events of an organizer are collected before the
\* abort: the organizer is reported once, and the one error carries every
\* violation of every event of the organizer, whichever event comes first.
C32_AllViolationsCollected ==
  \A o \in ConfiguredOrgs :
    /\ Cardinality(validationReports(o)) <= 1
    /\ (validated(o) /\ Len(violations(o)) > 0) => validationReports(o) # {}
    /\ \A r \in validationReports(o) :
         \A e \in eventsOf(o) :
           \A v \in Range(checkEventData(eventData[e], eventConfig(e))) :
             v \in Range(r[4])

\* both events of organizer A are invalid and the one report names both
C32_Witness ==
  \E r \in validationReports("A") :
    /\ \E v \in Range(r[4]) : v.event = "e1"
    /\ \E v \in Range(r[4]) : v.event = "e2"

\* C33 as stated: after stop() was called while a pass was in flight, and no
\* startSyncLoop or replaceApi call was ever made besides the one start, no
\* timer is armed once the pass has completed.
C33_Original ==
  (stoppedRunning /\ pretixAPI = 0 /\ inFlight = {}) => pendingTimers = {}

\* C34 as stated: a replaceApi call on a service whose loop is not running
\* (never started, or stopped with stop()) starts no pass.
C34_Original ==
  [][(pretixAPI' # pretixAPI /\ ~loopRunning) => loopPc' = loopPc]_vars

\* the clients the fetches of call p were started on
clientsOf(p) == {c \in 0..MaxSwaps : <<p, c>> \in fetchLog}

\* C35 as stated: the fetches of a pass whose data is synced all went to one
\* and the same client.
C35_Original ==
  \A p \in 1..MaxLoopPasses :
    loopPc[p] \in {"reload", "returned"} => Cardinality(clientsOf(p)) <= 1

\* C36 as stated: whenever hasCompletedSyncSinceStarting is true, a pass that
\* fetched only through the current client has completed.
C36_Original ==
  hasCompletedSyncSinceStarting =>
    \E p \in 1..MaxLoopPasses :
      /\ loopPc[p] = "returned"
      /\ clientsOf(p) = {pretixAPI}

\* the ItemInfo rows of event e the current pass soft-deleted
itemRowsDeletedInPass(e) ==
  {r \in itemsInfo :
     /\ r.devconnect_pretix_events_info_id = e
     /\ r.is_deleted
     /\ \E r0 \in dbAtPassStart.items : r0.id = r.id /\ ~r0.is_deleted}

\* C37: after a syncEvent run whose three phases all returned success, every
\* active Ticket row of the event references an active ItemInfo row, and the
\* tickets of an ItemInfo row the pass soft-deleted are soft-deleted as well.
C37_ActiveTicketsOnActiveItems ==
  \A e \in ConfiguredEvents :
    allPhasesOk(phaseResult[e]) =>
      /\ \A t \in activeTickets(e) :
           \E r \in itemsInfo :
             r.id = t.devconnect_pretix_items_info_id /\ ~r.is_deleted
      /\ \A r \in itemRowsDeletedInPass(e) :
           \A t \in tickets : t.devconnect_pretix_items_info_id = r.id => t.is_deleted

\* item 2 left the allow-list while a ticket of it was active: the pass
\* soft-deleted its ItemInfo row and that ticket, and kept a ticket of item 1
C37_Witness ==
  /\ allPhasesOk(phaseResult["e1"])
  /\ \E r \in itemRowsDeletedInPass("e1") :
       \E t0 \in dbAtPassStart.tickets :
         /\ t0.devconnect_pretix_items_info_id = r.id
         /\ ~t0.is_deleted
  /\ activeTickets("e1") # {}

C39_Original ==
  /\ \A k \in 1..Len(uploadStarts) :
       /\ uploadStarts[k].downloaded /\ ~uploadStarts[k].downloading
       /\ isZuzalu \/ uploadStarts[k].loadedIssued
  /\ \A j, k \in 1..Len(uploadStarts) :
       j # k => uploadStarts[j].uploadId # uploadStarts[k].uploadId
====
